---- MODULE Spec2Model ----
(***************************************************************************)
(* Model of the inbound-message automated-response flow of the social      *)
(* media automation API: sector classification (determineSector), reply    *)
(* rendering (generateAutomatedResponse and the per-sector generators) and *)
(* the two WhatsApp webhook handlers that drive them                       *)
(* (WebhookController.handleWhatsAppWebhook on POST /api/webhooks/whatsapp *)
(* and WhatsAppController.handleWebhook on POST /api/whatsapp/webhook).    *)
(*                                                                         *)
(* JavaScript strings are sequences of one-character strings, so that      *)
(* toLowerCase and includes are computed, not assumed.  The reply          *)
(* templates are JavaScript strings too long to spell character by         *)
(* character: each is kept as the sequence of three chunks                 *)
(* << glyph and opening asterisk, title, rest >> whose concatenation is    *)
(* the template literal of the source.  The leading emoji of a template is *)
(* written "#" and a bullet glyph "-".                                     *)
(***************************************************************************)
EXTENDS Integers, Sequences, FiniteSets, TLC

\* ------------------------------------------------------------------------
\* JavaScript strings and values
\* ------------------------------------------------------------------------

UpperLetters == <<"A", "B", "C", "D", "E", "F", "G", "H", "I", "J", "K", "L", "M", "N", "O", "P", "Q", "R", "S", "T", "U", "V", "W", "X", "Y", "Z">>

LowerLetters == <<"a", "b", "c", "d", "e", "f", "g", "h", "i", "j", "k", "l", "m", "n", "o", "p", "q", "r", "s", "t", "u", "v", "w", "x", "y", "z">>

\* the lower-case letter of every upper-case letter
LowerCaseOf ==
    [u \in {UpperLetters[i] : i \in 1..Len(UpperLetters)} |->
        LowerLetters[CHOOSE i \in 1..Len(UpperLetters) : UpperLetters[i] = u]]

\* String.prototype.toLowerCase, one character
toLowerChar(c) == IF c \in DOMAIN LowerCaseOf THEN LowerCaseOf[c] ELSE c

\* String.prototype.toLowerCase
toLowerCase(s) == [i \in 1..Len(s) |-> toLowerChar(s[i])]

\* String.prototype.includes: k occurs in s as a contiguous substring
includes(s, k) ==
    \E i \in 0..(Len(s) - Len(k)) : \A j \in 1..Len(k) : s[i + j] = k[j]

\* A JavaScript value: its type tag and, for a string, its characters (for a
\* number, its decimal digits).
JsString(s) == [type |-> "string", val |-> s]

JsNumber(digits) == [type |-> "number", val |-> digits]

JsUndefined == [type |-> "undefined", val |-> <<>>]

JsNull == [type |-> "null", val |-> <<>>]

\* ToBoolean of a JavaScript value
Truthy(v) ==
    CASE v.type = "string" -> v.val # <<>>
      [] v.type = "number" -> v.val # <<"0">>
      [] v.type \in {"undefined", "null"} -> FALSE
      [] OTHER -> TRUE

\* a || b
JsOr(a, b) == IF Truthy(a) THEN a ELSE b

\* Completion of a call: a returned value or a thrown TypeError
Return(v) == [kind |-> "return", value |-> v]

\* the sector-valued calls throw this
ThrowTypeError == [kind |-> "throw", value |-> "TypeError"]

\* the reply-valued calls throw this
ThrowTypeErrorReply == [kind |-> "throw", value |-> <<"TypeError">>]

\* ------------------------------------------------------------------------
\* Keyword literals of the two controllers
\* ------------------------------------------------------------------------

w_catering == <<"c", "a", "t", "e", "r", "i", "n", "g">>
w_school == <<"s", "c", "h", "o", "o", "l">>
w_lunch == <<"l", "u", "n", "c", "h">>
w_menu == <<"m", "e", "n", "u">>
w_cafe == <<"c", "a", "f", "e">>
w_coffee == <<"c", "o", "f", "f", "e", "e">>
w_reservation == <<"r", "e", "s", "e", "r", "v", "a", "t", "i", "o", "n">>
w_table == <<"t", "a", "b", "l", "e">>
w_investment == <<"i", "n", "v", "e", "s", "t", "m", "e", "n", "t">>
w_portfolio == <<"p", "o", "r", "t", "f", "o", "l", "i", "o">>
w_meeting == <<"m", "e", "e", "t", "i", "n", "g">>
w_financial == <<"f", "i", "n", "a", "n", "c", "i", "a", "l">>
w_food == <<"f", "o", "o", "d">>
w_order == <<"o", "r", "d", "e", "r">>
w_book == <<"b", "o", "o", "k">>
w_delivery == <<"d", "e", "l", "i", "v", "e", "r", "y">>
w_time == <<"t", "i", "m", "e">>
w_hours == <<"h", "o", "u", "r", "s">>
w_open == <<"o", "p", "e", "n">>
w_performance == <<"p", "e", "r", "f", "o", "r", "m", "a", "n", "c", "e">>
w_consultation == <<"c", "o", "n", "s", "u", "l", "t", "a", "t", "i", "o", "n">>
w_appointment == <<"a", "p", "p", "o", "i", "n", "t", "m", "e", "n", "t">>
w_market == <<"m", "a", "r", "k", "e", "t">>
w_trend == <<"t", "r", "e", "n", "d">>
w_news == <<"n", "e", "w", "s">>

\* ------------------------------------------------------------------------
\* Reply templates (template literals of the generate*Response methods)
\* ------------------------------------------------------------------------

Webhook_EducationMenuTemplate ==
    << "# *",
       "School Catering Menu Update",
       "*\n\nToday's healthy lunch options:\n- Grilled chicken with vegetables\n- Vegetarian pasta\n- Fresh fruit salad\n\nTo place an order, reply with \"ORDER\" followed by your choice. Delivery time: 12:00 PM." >>

Webhook_EducationOrderTemplate ==
    << "# *",
       "Order Confirmation",
       "*\n\nThank you for your catering order! We've received your request and will confirm within 30 minutes.\n\n*Order Details:*\n- Delivery Time: 12:00 PM\n- Location: School Cafeteria\n- Payment: Cash on delivery\n\nFor any changes, please contact us immediately." >>

Webhook_EducationDeliveryTemplate ==
    << "# *",
       "Delivery Information",
       "*\n\nOur delivery schedule:\n- Breakfast: 7:30 AM - 8:00 AM\n- Lunch: 12:00 PM - 12:30 PM\n- Snacks: 3:00 PM - 3:15 PM\n\nFor special dietary requirements, please inform us 24 hours in advance." >>

Webhook_EducationWelcomeTemplate ==
    << "# *",
       "School Catering Services",
       "*\n\nWelcome! We provide healthy, nutritious meals for students.\n\n*Our Services:*\n- Daily lunch delivery\n- Special event catering\n- Dietary accommodations\n- Nutrition consultation\n\nReply with \"MENU\" for today's options or \"ORDER\" to place an order." >>

Webhook_HospitalityReservationTemplate ==
    << "# *",
       "Hawana Cafe Reservation",
       "*\n\nThank you for your interest! To make a reservation:\n\n*Available Times:*\n- Breakfast: 7:00 AM - 11:00 AM\n- Lunch: 12:00 PM - 3:00 PM\n- Dinner: 6:00 PM - 10:00 PM\n\n*Special Offers:*\n- 20% off for groups of 4+\n- Free dessert on birthdays\n- Happy Hour: 4:00 PM - 6:00 PM\n\nReply with your preferred date, time, and party size." >>

Webhook_HospitalityMenuTemplate ==
    << "# *",
       "Hawana Cafe Menu",
       "*\n\n*Coffee & Beverages:*\n- Ethiopian Yirgacheffe - $4.50\n- Cappuccino - $3.80\n- Chai Latte - $4.20\n\n*Food:*\n- Avocado Toast - $8.50\n- Mediterranean Salad - $12.00\n- Chocolate Croissant - $3.50\n\n*Today's Special:*\n- Pumpkin Spice Latte - $5.00\n- Seasonal Fruit Tart - $6.50\n\nVisit our Instagram @hawana_cafe for food photos!" >>

Webhook_HospitalityHoursTemplate ==
    << "# *",
       "Hawana Cafe Hours",
       "*\n\n*Monday - Friday:*\n- 7:00 AM - 10:00 PM\n\n*Saturday - Sunday:*\n- 8:00 AM - 11:00 PM\n\n*Happy Hour:*\n- Daily 4:00 PM - 6:00 PM\n- 50% off all beverages\n\nWe're located at 123 Coffee Street. Free WiFi available!" >>

Webhook_HospitalityWelcomeTemplate ==
    << "# *",
       "Hawana Cafe",
       "*\n\nWelcome to your neighborhood coffee haven!\n\n*What can we help you with?*\n- \"RESERVATION\" - Book a table\n- \"MENU\" - View our menu\n- \"HOURS\" - Check our hours\n- \"LOCATION\" - Find us\n\nWe look forward to serving you!" >>

Webhook_InvestmentPortfolioTemplate ==
    << "# *",
       "Portfolio Update",
       "*\n\nYour investment portfolio summary:\n\n*Current Value:* $125,450\n*Monthly Return:* +2.3%\n*YTD Return:* +8.7%\n\n*Top Performers:*\n- Tech ETF: +12.5%\n- Green Energy Fund: +9.2%\n- International Bonds: +3.1%\n\n*Next Review:* Scheduled for next week\n\nTo schedule a consultation, reply \"MEETING\"." >>

Webhook_InvestmentMeetingTemplate ==
    << "# *",
       "Investment Consultation",
       "*\n\nAvailable appointment slots:\n\n*This Week:*\n- Tuesday 2:00 PM - 3:00 PM\n- Thursday 10:00 AM - 11:00 AM\n- Friday 4:00 PM - 5:00 PM\n\n*Next Week:*\n- Monday 9:00 AM - 10:00 AM\n- Wednesday 1:00 PM - 2:00 PM\n\n*Meeting Options:*\n- In-person at our office\n- Video call (Zoom/Teams)\n- Phone consultation\n\nReply with your preferred time and format." >>

Webhook_InvestmentMarketTemplate ==
    << "# *",
       "Market Update",
       "*\n\n*Today's Market Summary:*\n- S&P 500: +0.8%\n- NASDAQ: +1.2%\n- Dow Jones: +0.5%\n\n*Key News:*\n- Fed maintains interest rates\n- Tech earnings beat expectations\n- Oil prices stabilize\n\n*Investment Opportunities:*\n- Emerging markets showing growth\n- Renewable energy sector expanding\n- Value stocks undervalued\n\nFor detailed analysis, reply \"ANALYSIS\"." >>

Webhook_InvestmentWelcomeTemplate ==
    << "# *",
       "Portfolio Management Services",
       "*\n\nWelcome! We help you build and manage your investment portfolio.\n\n*Our Services:*\n- Portfolio review and optimization\n- Investment planning\n- Market analysis\n- Financial consultation\n\nReply with \"PORTFOLIO\" for your current status, \"MEETING\" to schedule a consultation, or \"MARKET\" for today's update." >>

Webhook_DefaultTemplate ==
    << "# *",
       "Thank you for your message!",
       "*\n\nWe're here to help. Please let us know what you're looking for:\n\n*For School Catering:* Reply with \"CATERING\"\n*For Cafe Services:* Reply with \"CAFE\"\n*For Investment Services:* Reply with \"INVESTMENT\"\n\nWe'll connect you with the right team!" >>

WhatsApp_EducationMenuTemplate ==
    << "# *",
       "School Catering Menu Update",
       "*\n\nToday's healthy lunch options:\n- Grilled chicken with vegetables\n- Vegetarian pasta\n- Fresh fruit salad\n\nTo place an order, reply with \"ORDER\" followed by your choice. Delivery time: 12:00 PM." >>

WhatsApp_EducationOrderTemplate ==
    << "# *",
       "Order Confirmation",
       "*\n\nThank you for your catering order! We've received your request and will confirm within 30 minutes.\n\n*Order Details:*\n- Delivery Time: 12:00 PM\n- Location: School Cafeteria\n- Payment: Cash on delivery\n\nFor any changes, please contact us immediately." >>

WhatsApp_EducationDeliveryTemplate ==
    << "# *",
       "Delivery Information",
       "*\n\nOur delivery schedule:\n- Breakfast: 7:30 AM - 8:00 AM\n- Lunch: 12:00 PM - 12:30 PM\n- Snacks: 3:00 PM - 3:15 PM\n\nFor special dietary requirements, please inform us 24 hours in advance." >>

WhatsApp_EducationWelcomeTemplate ==
    << "# *",
       "School Catering Services",
       "*\n\nWelcome! We provide healthy, nutritious meals for students.\n\nQuick options:\n- Reply \"MENU\" for today's options\n- Reply \"ORDER\" to place an order\n- Reply \"DELIVERY\" for timing info\n- Reply \"HELP\" for assistance" >>

WhatsApp_HospitalityReservationTemplate ==
    << "# *",
       "Hawana Cafe Reservation",
       "*\n\nThank you for your interest! To make a reservation:\n\n*Available Times:*\n- Breakfast: 7:00 AM - 11:00 AM\n- Lunch: 12:00 PM - 3:00 PM\n- Dinner: 6:00 PM - 10:00 PM\n\n*Special Offers:*\n- 20% off for groups of 4+\n- Free dessert on birthdays\n- Happy Hour: 4:00 PM - 6:00 PM\n\nReply with your preferred date, time, and party size." >>

WhatsApp_HospitalityMenuTemplate ==
    << "# *",
       "Hawana Cafe Menu",
       "*\n\n*Coffee & Beverages:*\n- Ethiopian Yirgacheffe - $4.50\n- Cappuccino - $3.80\n- Chai Latte - $4.20\n\n*Food:*\n- Avocado Toast - $8.50\n- Mediterranean Salad - $12.00\n- Chocolate Croissant - $3.50\n\n*Today's Special:*\n- Pumpkin Spice Latte - $5.00\n- Seasonal Fruit Tart - $6.50\n\nVisit our Instagram @hawana_cafe for food photos!" >>

WhatsApp_HospitalityHoursTemplate ==
    << "# *",
       "Hawana Cafe Hours",
       "*\n\n*Monday - Friday:*\n- 7:00 AM - 10:00 PM\n\n*Saturday - Sunday:*\n- 8:00 AM - 11:00 PM\n\n*Happy Hour:*\n- Daily 4:00 PM - 6:00 PM\n- 50% off all beverages\n\nWe're located at 123 Coffee Street. Free WiFi available!" >>

WhatsApp_HospitalityWelcomeTemplate ==
    << "# *",
       "Welcome to Hawana Cafe",
       "*\n\nWe're your neighborhood coffee haven!\n\nQuick options:\n- Reply \"RESERVATION\" to book a table\n- Reply \"MENU\" for our offerings\n- Reply \"HOURS\" for opening times\n- Reply \"SPECIALS\" for today's deals\n\nFollow us on Instagram @hawana_cafe for updates!" >>

WhatsApp_InvestmentPortfolioTemplate ==
    << "# *",
       "Portfolio Update",
       "*\n\nYour investment portfolio summary:\n\n*Current Value:* $125,450\n*Monthly Return:* +2.3%\n*YTD Return:* +8.7%\n\n*Top Performers:*\n- Tech ETF: +12.5%\n- Green Energy Fund: +9.2%\n- International Bonds: +3.1%\n\n*Next Review:* Scheduled for next week\n\nTo schedule a consultation, reply \"MEETING\"." >>

WhatsApp_InvestmentMeetingTemplate ==
    << "# *",
       "Investment Consultation",
       "*\n\nAvailable appointment slots:\n\n*This Week:*\n- Tuesday 2:00 PM - 3:00 PM\n- Thursday 10:00 AM - 11:00 AM\n- Friday 4:00 PM - 5:00 PM\n\n*Next Week:*\n- Monday 9:00 AM - 10:00 AM\n- Wednesday 1:00 PM - 2:00 PM\n\n*Meeting Options:*\n- In-person at our office\n- Video call (Zoom/Teams)\n- Phone consultation\n\nReply with your preferred time and format." >>

WhatsApp_InvestmentMarketTemplate ==
    << "# *",
       "Market Update",
       "*\n\n*Today's Market Summary:*\n- S&P 500: +0.8%\n- NASDAQ: +1.2%\n- Dow Jones: +0.5%\n\n*Key News:*\n- Fed maintains interest rates\n- Tech earnings beat expectations\n- Oil prices stabilize\n\n*Investment Opportunities:*\n- Emerging markets showing growth\n- Renewable energy sector expanding\n- Value stocks undervalued\n\nFor detailed analysis, reply \"ANALYSIS\"." >>

WhatsApp_InvestmentWelcomeTemplate ==
    << "# *",
       "Portfolio Management Services",
       "*\n\nWelcome to our investment advisory service!\n\nQuick options:\n- Reply \"PORTFOLIO\" for your current status\n- Reply \"MEETING\" to schedule consultation\n- Reply \"MARKET\" for latest updates\n- Reply \"ANALYSIS\" for detailed insights\n\nYour financial success is our priority." >>

WhatsApp_DefaultTemplate ==
    << "# *",
       "Thank you for your message!",
       "*\n\nWe're here to help with:\n\n- *Education Catering*\n- School meal services\n- Healthy lunch options\n- Delivery coordination\n\n- *Hawana Cafe*\n- Reservations & dining\n- Coffee & food menu\n- Special events\n\n- *Investment Services*\n- Portfolio management\n- Financial consultation\n- Market analysis\n\nPlease specify which service you're interested in, or reply with a keyword like \"catering\", \"cafe\", or \"investment\"." >>
\* ------------------------------------------------------------------------
\* WebhookController: classification and rendering
\* ------------------------------------------------------------------------

\* determineSector with the hospitality keywords tested before the education
\* keywords
Webhook_determineSector_HospitalityFirst(phoneNumber, messageText) ==
    IF messageText.type # "string"
    THEN ThrowTypeError
    ELSE LET text == toLowerCase(messageText.val) IN
         IF \/ includes(text, w_cafe)
            \/ includes(text, w_coffee)
            \/ includes(text, w_reservation)
            \/ includes(text, w_table)
         THEN Return("hospitality")
         ELSE IF \/ includes(text, w_catering)
                 \/ includes(text, w_school)
                 \/ includes(text, w_lunch)
                 \/ includes(text, w_menu)
         THEN Return("education")
         ELSE IF \/ includes(text, w_investment)
                 \/ includes(text, w_portfolio)
                 \/ includes(text, w_meeting)
                 \/ includes(text, w_financial)
         THEN Return("investment")
         ELSE Return("hospitality")

\* WebhookController.determineSector(phoneNumber, messageText)
Webhook_determineSector(phoneNumber, messageText) ==
    IF messageText.type # "string"
    THEN ThrowTypeError      \* messageText.toLowerCase is not a function
    ELSE LET text == toLowerCase(messageText.val) IN
         IF \/ includes(text, w_catering)
            \/ includes(text, w_school)
            \/ includes(text, w_lunch)
            \/ includes(text, w_menu)
         THEN Return("education")
         ELSE IF \/ includes(text, w_cafe)
                 \/ includes(text, w_coffee)
                 \/ includes(text, w_reservation)
                 \/ includes(text, w_table)
         THEN Return("hospitality")
         ELSE IF \/ includes(text, w_investment)
                 \/ includes(text, w_portfolio)
                 \/ includes(text, w_meeting)
                 \/ includes(text, w_financial)
         THEN Return("investment")
         ELSE Return("hospitality")

\* generateEducationResponse ending with the generic reply in place of the
\* sector's welcome
Webhook_generateEducationResponse_NoWelcome(messageText) ==
    IF includes(messageText, w_menu) \/ includes(messageText, w_food)
    THEN Webhook_EducationMenuTemplate
    ELSE IF includes(messageText, w_order) \/ includes(messageText, w_book)
    THEN Webhook_EducationOrderTemplate
    ELSE IF includes(messageText, w_delivery) \/ includes(messageText, w_time)
    THEN Webhook_EducationDeliveryTemplate
    ELSE Webhook_DefaultTemplate

\* WebhookController.generateEducationResponse(messageText), messageText a string
Webhook_generateEducationResponse(messageText) ==
    IF includes(messageText, w_menu) \/ includes(messageText, w_food)
    THEN Webhook_EducationMenuTemplate
    ELSE IF includes(messageText, w_order) \/ includes(messageText, w_book)
    THEN Webhook_EducationOrderTemplate
    ELSE IF includes(messageText, w_delivery) \/ includes(messageText, w_time)
    THEN Webhook_EducationDeliveryTemplate
    ELSE Webhook_EducationWelcomeTemplate

\* generateHospitalityResponse with the menu branch before the reservation
\* branch
Webhook_generateHospitalityResponse_MenuFirst(messageText) ==
    IF \/ includes(messageText, w_menu)
       \/ includes(messageText, w_food)
       \/ includes(messageText, w_coffee)
    THEN Webhook_HospitalityMenuTemplate
    ELSE IF \/ includes(messageText, w_reservation)
            \/ includes(messageText, w_table)
            \/ includes(messageText, w_book)
    THEN Webhook_HospitalityReservationTemplate
    ELSE IF \/ includes(messageText, w_hours)
            \/ includes(messageText, w_open)
            \/ includes(messageText, w_time)
    THEN Webhook_HospitalityHoursTemplate
    ELSE Webhook_HospitalityWelcomeTemplate

\* generateHospitalityResponse without its final else: nothing is returned
\* when no intent keyword matches
Webhook_generateHospitalityResponse_NoElse(messageText) ==
    IF \/ includes(messageText, w_reservation)
       \/ includes(messageText, w_table)
       \/ includes(messageText, w_book)
    THEN Webhook_HospitalityReservationTemplate
    ELSE IF \/ includes(messageText, w_menu)
            \/ includes(messageText, w_food)
            \/ includes(messageText, w_coffee)
    THEN Webhook_HospitalityMenuTemplate
    ELSE IF \/ includes(messageText, w_hours)
            \/ includes(messageText, w_open)
            \/ includes(messageText, w_time)
    THEN Webhook_HospitalityHoursTemplate
    ELSE <<>>

\* WebhookController.generateHospitalityResponse(messageText)
Webhook_generateHospitalityResponse(messageText) ==
    IF \/ includes(messageText, w_reservation)
       \/ includes(messageText, w_table)
       \/ includes(messageText, w_book)
    THEN Webhook_HospitalityReservationTemplate
    ELSE IF \/ includes(messageText, w_menu)
            \/ includes(messageText, w_food)
            \/ includes(messageText, w_coffee)
    THEN Webhook_HospitalityMenuTemplate
    ELSE IF \/ includes(messageText, w_hours)
            \/ includes(messageText, w_open)
            \/ includes(messageText, w_time)
    THEN Webhook_HospitalityHoursTemplate
    ELSE Webhook_HospitalityWelcomeTemplate

\* WebhookController.generateInvestmentResponse(messageText)
Webhook_generateInvestmentResponse(messageText) ==
    IF \/ includes(messageText, w_portfolio)
       \/ includes(messageText, w_investment)
       \/ includes(messageText, w_performance)
    THEN Webhook_InvestmentPortfolioTemplate
    ELSE IF \/ includes(messageText, w_meeting)
            \/ includes(messageText, w_consultation)
            \/ includes(messageText, w_appointment)
    THEN Webhook_InvestmentMeetingTemplate
    ELSE IF \/ includes(messageText, w_market)
            \/ includes(messageText, w_trend)
            \/ includes(messageText, w_news)
    THEN Webhook_InvestmentMarketTemplate
    ELSE Webhook_InvestmentWelcomeTemplate

\* WebhookController.generateDefaultResponse(messageText)
Webhook_generateDefaultResponse(messageText) == Webhook_DefaultTemplate

\* WebhookController.generateAutomatedResponse(sector, messageText, phoneNumber)
Webhook_generateAutomatedResponse(sector, messageText, phoneNumber) ==
    IF messageText.type # "string"
    THEN ThrowTypeErrorReply \* messageText.toLowerCase is not a function
    ELSE LET text == toLowerCase(messageText.val) IN
         CASE sector = "education" ->
                  Return(Webhook_generateEducationResponse(text))
           [] sector = "hospitality" ->
                  Return(Webhook_generateHospitalityResponse(text))
           [] sector = "investment" ->
                  Return(Webhook_generateInvestmentResponse(text))
           [] OTHER ->
                  Return(Webhook_generateDefaultResponse(text))

\* ------------------------------------------------------------------------
\* WhatsAppController: classification and rendering
\* ------------------------------------------------------------------------

\* determineSector without the final fallback to hospitality
WhatsApp_determineSector_NoFallback(phoneNumber, messageText) ==
    IF messageText.type # "string"
    THEN ThrowTypeError
    ELSE LET text == toLowerCase(messageText.val) IN
         IF \/ includes(text, w_catering)
            \/ includes(text, w_school)
            \/ includes(text, w_lunch)
            \/ includes(text, w_menu)
         THEN Return("education")
         ELSE IF \/ includes(text, w_cafe)
                 \/ includes(text, w_coffee)
                 \/ includes(text, w_reservation)
                 \/ includes(text, w_table)
         THEN Return("hospitality")
         ELSE IF \/ includes(text, w_investment)
                 \/ includes(text, w_portfolio)
                 \/ includes(text, w_meeting)
                 \/ includes(text, w_financial)
         THEN Return("investment")
         ELSE Return("unknown")

\* determineSector that looks the sector of a known phone number up before
\* it looks at the text
WhatsApp_determineSector_ByPhone(phoneNumber, messageText) ==
    IF phoneNumber = JsString(<<"+", "2">>)
    THEN Return("investment")
    ELSE Webhook_determineSector(phoneNumber, messageText)

\* WhatsAppController.determineSector(phoneNumber, messageText)
WhatsApp_determineSector(phoneNumber, messageText) ==
    IF messageText.type # "string"
    THEN ThrowTypeError      \* messageText.toLowerCase is not a function
    ELSE LET text == toLowerCase(messageText.val) IN
         IF \/ includes(text, w_catering)
            \/ includes(text, w_school)
            \/ includes(text, w_lunch)
            \/ includes(text, w_menu)
         THEN Return("education")
         ELSE IF \/ includes(text, w_cafe)
                 \/ includes(text, w_coffee)
                 \/ includes(text, w_reservation)
                 \/ includes(text, w_table)
         THEN Return("hospitality")
         ELSE IF \/ includes(text, w_investment)
                 \/ includes(text, w_portfolio)
                 \/ includes(text, w_meeting)
                 \/ includes(text, w_financial)
         THEN Return("investment")
         ELSE Return("hospitality")

\* generateEducationResponse with the order keywords tested before the menu
\* keywords
WhatsApp_generateEducationResponse_OrderFirst(messageText) ==
    IF includes(messageText, w_order) \/ includes(messageText, w_book)
    THEN WhatsApp_EducationOrderTemplate
    ELSE IF includes(messageText, w_menu) \/ includes(messageText, w_food)
    THEN WhatsApp_EducationMenuTemplate
    ELSE IF includes(messageText, w_delivery) \/ includes(messageText, w_time)
    THEN WhatsApp_EducationDeliveryTemplate
    ELSE WhatsApp_EducationWelcomeTemplate

\* WhatsAppController.generateEducationResponse(messageText), messageText a string
WhatsApp_generateEducationResponse(messageText) ==
    IF includes(messageText, w_menu) \/ includes(messageText, w_food)
    THEN WhatsApp_EducationMenuTemplate
    ELSE IF includes(messageText, w_order) \/ includes(messageText, w_book)
    THEN WhatsApp_EducationOrderTemplate
    ELSE IF includes(messageText, w_delivery) \/ includes(messageText, w_time)
    THEN WhatsApp_EducationDeliveryTemplate
    ELSE WhatsApp_EducationWelcomeTemplate

\* WhatsAppController.generateHospitalityResponse(messageText)
WhatsApp_generateHospitalityResponse(messageText) ==
    IF \/ includes(messageText, w_reservation)
       \/ includes(messageText, w_table)
       \/ includes(messageText, w_book)
    THEN WhatsApp_HospitalityReservationTemplate
    ELSE IF \/ includes(messageText, w_menu)
            \/ includes(messageText, w_food)
            \/ includes(messageText, w_coffee)
    THEN WhatsApp_HospitalityMenuTemplate
    ELSE IF \/ includes(messageText, w_hours)
            \/ includes(messageText, w_open)
            \/ includes(messageText, w_time)
    THEN WhatsApp_HospitalityHoursTemplate
    ELSE WhatsApp_HospitalityWelcomeTemplate

\* WhatsAppController.generateInvestmentResponse(messageText)
WhatsApp_generateInvestmentResponse(messageText) ==
    IF \/ includes(messageText, w_portfolio)
       \/ includes(messageText, w_investment)
       \/ includes(messageText, w_performance)
    THEN WhatsApp_InvestmentPortfolioTemplate
    ELSE IF \/ includes(messageText, w_meeting)
            \/ includes(messageText, w_consultation)
            \/ includes(messageText, w_appointment)
    THEN WhatsApp_InvestmentMeetingTemplate
    ELSE IF \/ includes(messageText, w_market)
            \/ includes(messageText, w_trend)
            \/ includes(messageText, w_news)
    THEN WhatsApp_InvestmentMarketTemplate
    ELSE WhatsApp_InvestmentWelcomeTemplate

\* WhatsAppController.generateDefaultResponse(messageText)
WhatsApp_generateDefaultResponse(messageText) == WhatsApp_DefaultTemplate

\* WhatsAppController.generateAutomatedResponse(sector, messageText, phoneNumber)
WhatsApp_generateAutomatedResponse(sector, messageText, phoneNumber) ==
    IF messageText.type # "string"
    THEN ThrowTypeErrorReply \* messageText.toLowerCase is not a function
    ELSE LET text == toLowerCase(messageText.val) IN
         CASE sector = "education" ->
                  Return(WhatsApp_generateEducationResponse(text))
           [] sector = "hospitality" ->
                  Return(WhatsApp_generateHospitalityResponse(text))
           [] sector = "investment" ->
                  Return(WhatsApp_generateInvestmentResponse(text))
           [] OTHER ->
                  Return(WhatsApp_generateDefaultResponse(text))

\* ------------------------------------------------------------------------
\* JSON values of a request body
\* ------------------------------------------------------------------------

\* a JSON object with the given fields (a function from field names)
JsObject(f) == [type |-> "object", val |-> <<>>, fields |-> f]

\* a JSON array
JsArray(items) == [type |-> "array", val |-> <<>>, items |-> items]

\* v.k on a value that is neither null nor undefined
Get(v, k) ==
    IF v.type = "object" /\ k \in DOMAIN v.fields THEN v.fields[k]
    ELSE JsUndefined

\* v?.k
OptGet(v, k) ==
    IF v.type \in {"undefined", "null"} THEN JsUndefined ELSE Get(v, k)

\* v?.[0]
OptFirst(v) ==
    IF v.type = "array" /\ Len(v.items) >= 1 THEN v.items[1]
    ELSE JsUndefined

\* const messageText = text?.body || ""        (message an object)
extractMessageText(message) ==
    JsOr(OptGet(Get(message, "text"), "body"), JsString(<<>>))

\* const phoneNumber = from
extractPhoneNumber(message) == Get(message, "from")

\* ------------------------------------------------------------------------
\* Inputs: message texts built from the keyword vocabulary
\* ------------------------------------------------------------------------

\* most words of a generated text
MaxWords == 2

w_hi == <<"h", "i">>

w_timetable == <<"t", "i", "m", "e", "t", "a", "b", "l", "e">>

Vocabulary ==
    << w_catering, w_school, w_lunch, w_menu,
       w_cafe, w_coffee, w_reservation, w_table,
       w_investment, w_portfolio, w_meeting, w_financial,
       w_food, w_order, w_book, w_delivery, w_time,
       w_hours, w_open, w_performance, w_consultation, w_appointment,
       w_market, w_trend, w_news,
       w_hi, w_timetable >>

UpperCaseOf ==
    [l \in {LowerLetters[i] : i \in 1..Len(LowerLetters)} |->
        UpperLetters[CHOOSE i \in 1..Len(LowerLetters) : LowerLetters[i] = l]]

toUpperChar(c) == IF c \in DOMAIN UpperCaseOf THEN UpperCaseOf[c] ELSE c

toUpperCase(s) == [i \in 1..Len(s) |-> toUpperChar(s[i])]

CaseModes == {"lower", "upper"}

ApplyCase(s, mode) ==
    IF mode = "upper" THEN toUpperCase(s) ELSE s

RECURSIVE JoinWords(_)
\* the words of ws (indices into Vocabulary) separated by single spaces
JoinWords(ws) ==
    IF ws = <<>> THEN <<>>
    ELSE IF Len(ws) = 1 THEN Vocabulary[ws[1]]
    ELSE Vocabulary[ws[1]] \o <<" ">> \o JoinWords(Tail(ws))

\* word choices: up to MaxWords distinct words, in vocabulary order or in
\* the reverse order
WordChoices ==
    UNION { { ws \in [1..n -> 1..Len(Vocabulary)] :
                \/ \A i \in 1..(n - 1) : ws[i] < ws[i + 1]
                \/ \A i \in 1..(n - 1) : ws[i] > ws[i + 1] } : n \in 0..MaxWords }

Texts == { ApplyCase(JoinWords(ws), m) : ws \in WordChoices, m \in CaseModes }

Phone1 == JsString(<<"+", "1">>)

Phone2 == JsString(<<"+", "2">>)

\* a text message as the provider delivers it
TextMessage(from, b) ==
    JsObject([from |-> from, text |-> JsObject([body |-> b]), type |-> JsString(<<"text">>)])

\* a message without a text object (an image, a location, ...)
NoTextMessage(from) ==
    JsObject([from |-> from, type |-> JsString(<<"image">>)])

\* a message whose text object has no body
NoBodyMessage(from) ==
    JsObject([from |-> from, text |-> JsObject(<<>>), type |-> JsString(<<"text">>)])

\* the text of the hospitality scenario
t_book_a_table ==
    << "c", "a", "n", " ", "I", " ", "b", "o", "o", "k", " ", "a",
       " ", "t", "a", "b", "l", "e", " ", "f", "o", "r", " ", "4" >>

\* the text of the education scenario
t_catering_for_my_school ==
    << "I", " ", "n", "e", "e", "d", " ", "c", "a", "t", "e", "r",
       "i", "n", "g", " ", "f", "o", "r", " ", "m", "y", " ", "s",
       "c", "h", "o", "o", "l" >>

ScenarioTexts == {t_book_a_table, t_catering_for_my_school}

Controllers == {"WebhookController", "WhatsAppController"}

Sectors == {"education", "hospitality", "investment"}

\* the replies the welcome template of a sector of WebhookController asks for
Webhook_AdvertisedOptions(s) ==
    IF s = "education"
    THEN { <<"M", "E", "N", "U">>,
           <<"O", "R", "D", "E", "R">> }
    ELSE IF s = "hospitality"
    THEN { <<"R", "E", "S", "E", "R", "V", "A", "T", "I", "O", "N">>,
           <<"M", "E", "N", "U">>,
           <<"H", "O", "U", "R", "S">>,
           <<"L", "O", "C", "A", "T", "I", "O", "N">> }
    ELSE { <<"P", "O", "R", "T", "F", "O", "L", "I", "O">>,
           <<"M", "E", "E", "T", "I", "N", "G">>,
           <<"M", "A", "R", "K", "E", "T">> }

\* the replies the welcome template of a sector of WhatsAppController asks for
WhatsApp_AdvertisedOptions(s) ==
    IF s = "education"
    THEN { <<"M", "E", "N", "U">>,
           <<"O", "R", "D", "E", "R">>,
           <<"D", "E", "L", "I", "V", "E", "R", "Y">>,
           <<"H", "E", "L", "P">> }
    ELSE IF s = "hospitality"
    THEN { <<"R", "E", "S", "E", "R", "V", "A", "T", "I", "O", "N">>,
           <<"M", "E", "N", "U">>,
           <<"H", "O", "U", "R", "S">>,
           <<"S", "P", "E", "C", "I", "A", "L", "S">> }
    ELSE { <<"P", "O", "R", "T", "F", "O", "L", "I", "O">>,
           <<"M", "E", "E", "T", "I", "N", "G">>,
           <<"M", "A", "R", "K", "E", "T">>,
           <<"A", "N", "A", "L", "Y", "S", "I", "S">> }

AdvertisedOptions(c, s) ==
    IF c = "WebhookController" THEN Webhook_AdvertisedOptions(s)
    ELSE WhatsApp_AdvertisedOptions(s)

\* the texts of a user who answers a welcome with one of its options
OptionTexts == UNION { AdvertisedOptions(c, s) : c \in Controllers, s \in Sectors }

ClassifierMessages ==
    { TextMessage(Phone1, JsString(t)) : t \in Texts \cup ScenarioTexts \cup OptionTexts }
        \cup { NoTextMessage(Phone1), NoBodyMessage(Phone1) }

determineSector(c, phoneNumber, messageText) ==
    IF c = "WebhookController"
    THEN Webhook_determineSector(phoneNumber, messageText)
    ELSE WhatsApp_determineSector(phoneNumber, messageText)

generateAutomatedResponse(c, sector, messageText, phoneNumber) ==
    IF c = "WebhookController"
    THEN Webhook_generateAutomatedResponse(sector, messageText, phoneNumber)
    ELSE WhatsApp_generateAutomatedResponse(sector, messageText, phoneNumber)

\* ------------------------------------------------------------------------
\* State
\* ------------------------------------------------------------------------

VARIABLES
    message,        \* classifier run: the inbound message being handled
    controller,     \* classifier run: the controller whose methods run
    messageText,    \* classifier run: text?.body || ""
    sector,         \* classifier run: completion of determineSector
    response,       \* classifier run: completion of generateAutomatedResponse
    step,           \* classifier run: "start", "classified", "rendered", "direct"
    route,          \* webhook: path of the POST being handled
    body,           \* webhook: req.body
    pc,             \* webhook: "idle", "loop", "sending", "responded"
    idx,            \* webhook: position of the for-of loop in value.messages
    outcomes,       \* webhook: per message of this request, what the pipeline did
    classifyCalls,  \* webhook: calls of determineSector in this request
    renderCalls,    \* webhook: calls of generateAutomatedResponse in this request
    sendCalls,      \* webhook: calls of WhatsAppService.sendMessage in this request
    storeCalls,     \* webhook: calls of storeMessage in this request
    sendResults,    \* webhook: per settled sendMessage call, whether the provider accepted it
    storeFailed,    \* webhook: directions of the records whose write failed in this request
    res,            \* webhook: responses sent on res in this request
    history,        \* webhook: (route, sender, text, sector, reply) of every message so far
    requests,       \* webhook: number of requests received so far
    env,            \* process.env.WHATSAPP_WEBHOOK_VERIFY_TOKEN
    query,          \* verification: req.query of the GET being handled
    verifyLog,      \* verification: (route, query, response) of every GET so far
    signature,      \* x-hub-signature-256 of the POST being handled
    dispatched,     \* platform webhooks: the process*Change calls of this request
    apiReq,         \* send API: route, Authorization header and body of the POST
    apiPc,          \* send API: the middleware or handler the request is at
    apiRes,         \* send API: responses sent on res in this request
    apiPosted,      \* send API: payloads posted to the WhatsApp Business API
    apiCalls,       \* send API: controller methods entered in this request
    mockUsers,      \* auth: the mockUsers array
    pending,        \* auth: calls suspended at an await
    tokens,         \* auth: payloads of the tokens signed so far
    now,            \* auth: Date.now()
    authCalls,      \* auth: number of calls received so far
    authRes,        \* auth: the last response sent, with what was asked
    deleted         \* auth: id and email of the users deleteUser removed

classifierVars == <<message, controller, messageText, sector, response, step>>

webhookVars ==
    <<route, body, pc, idx, outcomes, classifyCalls, renderCalls, sendCalls,
      storeCalls, sendResults, storeFailed, res, history, requests>>

verifyVars == <<env, query, verifyLog>>

platformVars == <<signature, dispatched>>

apiVars == <<apiReq, apiPc, apiRes, apiPosted, apiCalls>>

authVars == <<mockUsers, pending, tokens, now, authCalls, authRes, deleted>>

vars == <<classifierVars, webhookVars, verifyVars, platformVars, apiVars, authVars>>

NoCompletion == [kind |-> "none", value |-> "none"]

NoReply == [kind |-> "none", value |-> <<>>]

\* ------------------------------------------------------------------------
\* The classify-then-render pipeline on one message (lines 169-188 of
\* processWhatsAppMessage, 151-170 of processIncomingMessage)
\* ------------------------------------------------------------------------

ClassifierStart ==
    /\ message \in ClassifierMessages
    /\ controller \in Controllers
    /\ messageText = extractMessageText(message)
    /\ sector = NoCompletion
    /\ response = NoReply
    /\ step = "start"

\* const sector = await determineSector(phoneNumber, messageText)
Classify ==
    /\ step = "start"
    /\ sector' = determineSector(controller, extractPhoneNumber(message), messageText)
    /\ step' = "classified"
    /\ UNCHANGED <<message, controller, messageText, response>>
    /\ UNCHANGED <<webhookVars, verifyVars, platformVars, apiVars, authVars>>

\* const response = await generateAutomatedResponse(sector, messageText, phoneNumber)
Render ==
    /\ step = "classified"
    /\ sector.kind = "return"
    /\ response' = generateAutomatedResponse(controller, sector.value, messageText,
                                             extractPhoneNumber(message))
    /\ step' = "rendered"
    /\ UNCHANGED <<message, controller, messageText, sector>>
    /\ UNCHANGED <<webhookVars, verifyVars, platformVars, apiVars, authVars>>

\* generateAutomatedResponse called directly with any sector argument
RenderWith(s) ==
    /\ step = "start"
    /\ sector' = Return(s)
    /\ response' = generateAutomatedResponse(controller, s, messageText,
                                             extractPhoneNumber(message))
    /\ step' = "direct"
    /\ UNCHANGED <<message, controller, messageText>>
    /\ UNCHANGED <<webhookVars, verifyVars, platformVars, apiVars, authVars>>

ClassifierNext ==
    \/ Classify
    \/ Render
    \/ \E s \in Sectors \cup {"unknown"} : RenderWith(s)

\* ------------------------------------------------------------------------
\* Inputs: webhook request bodies
\* ------------------------------------------------------------------------

\* most messages in value.messages of a generated payload
MaxMessages == 2

\* most webhook requests of a run
MaxRequests == 2

Routes == {"/api/webhooks/whatsapp", "/api/whatsapp/webhook"}

\* router.post("/whatsapp", WebhookController.handleWhatsAppWebhook)
\* router.post("/webhook", WhatsAppController.handleWebhook)
ControllerOf(r) ==
    IF r = "/api/webhooks/whatsapp" THEN "WebhookController"
    ELSE "WhatsAppController"

w_whatsapp_business_account ==
    <<"w", "h", "a", "t", "s", "a", "p", "p", "_", "b", "u", "s", "i", "n",
      "e", "s", "s", "_", "a", "c", "c", "o", "u", "n", "t">>

w_page == <<"p", "a", "g", "e">>

\* the messages a generated payload may carry: two senders with the same
\* text, a numeric text body, a message without text, and a null element
WebhookMessages ==
    { TextMessage(Phone1, JsString(toUpperCase(w_menu))),
      TextMessage(Phone2, JsString(toUpperCase(w_menu))),
      TextMessage(Phone1, JsNumber(<<"4", "2">>)),
      NoTextMessage(Phone2),
      JsNull }

MessageLists == UNION { [1..n -> WebhookMessages] : n \in 0..MaxMessages }

\* the envelope around a value
Envelope(value) ==
    [entry |-> JsArray(<< JsObject([changes |->
                  JsArray(<< JsObject([value |-> value]) >>)]) >>)]

\* the values found at body.entry[0].changes[0].value
Values ==
    { JsObject([messages |-> JsArray(ms)]) : ms \in MessageLists }
        \cup { JsObject([messages |-> JsNumber(<<"5">>)]),
               JsObject([messages |-> JsNull]),
               JsObject(<<>>),
               JsNull }

\* envelopes in which entry, changes or value are absent or empty
PartialEnvelopes ==
    { <<>>,
      [entry |-> JsNull],
      [entry |-> JsArray(<<>>)],
      [entry |-> JsArray(<<JsNull>>)],
      [entry |-> JsArray(<<JsObject(<<>>)>>)],
      [entry |-> JsArray(<<JsObject([changes |-> JsArray(<<>>)])>>)],
      [entry |-> JsArray(<<JsObject([changes |-> JsArray(<<JsObject(<<>>)>>)])>>)] }

Envelopes == { Envelope(v) : v \in Values } \cup PartialEnvelopes

\* fields f with the discriminator o added
WithObject(f, o) ==
    [k \in DOMAIN f \cup {"object"} |-> IF k = "object" THEN o ELSE f[k]]

\* envelopes sent with another discriminator, or with none
OtherEnvelopes ==
    { Envelope(JsObject([messages |-> JsArray(ms)])) :
        ms \in UNION { [1..n -> {TextMessage(Phone1, JsString(w_menu))}] :
                         n \in 0..MaxMessages } }
        \cup { <<>> }

Bodies ==
    { JsObject(WithObject(e, JsString(w_whatsapp_business_account))) : e \in Envelopes }
        \cup { JsObject(WithObject(e, JsString(w_page))) : e \in OtherEnvelopes }
        \cup { JsObject(e) : e \in OtherEnvelopes }

\* ------------------------------------------------------------------------
\* The WhatsApp webhook handlers
\* ------------------------------------------------------------------------

\* what for (const message of v) can iterate; anything else throws
\* "v is not iterable"
Iterable(v) == v.type = "array"

\* body.entry?.[0] ... changes?.value ... value?.messages
messagesOf(b) ==
    LET entry == OptFirst(Get(b, "entry"))
        changes == OptFirst(OptGet(entry, "changes"))
        value == OptGet(changes, "value")
    IN  OptGet(value, "messages")

\* if (response): a reply, the concatenation of its chunks, is not ""
ReplyTruthy(reply) == \E i \in 1..Len(reply) : reply[i] # ""

\* The synchronous part of processWhatsAppMessage / processIncomingMessage
\* on one element of value.messages, up to the if (response) guard:
\* destructuring, extraction, determineSector, generateAutomatedResponse.
\* Destructuring null throws; a throw of determineSector skips the rest.
Pipeline(c, m) ==
    IF m.type \in {"null", "undefined"}
    THEN [phoneNumber |-> JsUndefined, messageText |-> JsUndefined,
          sector |-> NoCompletion, response |-> NoReply, threw |-> TRUE]
    ELSE LET phoneNumber == extractPhoneNumber(m)
             text == extractMessageText(m)
             s == determineSector(c, phoneNumber, text)
             r == IF s.kind = "return"
                  THEN generateAutomatedResponse(c, s.value, text, phoneNumber)
                  ELSE NoReply
         IN  [phoneNumber |-> phoneNumber, messageText |-> text,
              sector |-> s, response |-> r,
              threw |-> (s.kind = "throw" \/ r.kind = "throw")]

\* the record handed to storeMessage for an inbound message
InboundRecord(p) ==
    [phoneNumber |-> p.phoneNumber, message |-> p.messageText,
     sector |-> p.sector.value, direction |-> "inbound"]

\* the record WhatsAppService.sendMessage stores after a successful send
OutboundRecord(call) ==
    [phoneNumber |-> call.to, message |-> JsUndefined,
     sector |-> call.sector, direction |-> "outbound"]

OK200 == [status |-> 200, body |-> "OK"]

NotFound404 == [status |-> 404, body |-> "Not Found"]

Error500 == [status |-> 500, body |-> "Internal Server Error"]

WebhookInit ==
    /\ route = "/api/webhooks/whatsapp"
    /\ body = JsUndefined
    /\ pc = "idle"
    /\ idx = 0
    /\ outcomes = <<>>
    /\ classifyCalls = 0
    /\ renderCalls = 0
    /\ sendCalls = <<>>
    /\ storeCalls = <<>>
    /\ sendResults = <<>>
    /\ storeFailed = {}
    /\ res = <<>>
    /\ history = {}
    /\ requests = 0

w_subscribe == <<"s", "u", "b", "s", "c", "r", "i", "b", "e">>

w_test_token == <<"t", "e", "s", "t", "_", "t", "o", "k", "e", "n">>

w_Forbidden == <<"F", "o", "r", "b", "i", "d", "d", "e", "n">>

\* req.query without hub.mode, hub.verify_token and hub.challenge
NoQuery == [mode |-> JsUndefined, token |-> JsUndefined, challenge |-> JsUndefined]

\* no verification request is in flight; the secret is the one of the test
\* setup
VerifyIdle ==
    /\ env = JsString(w_test_token)
    /\ query = NoQuery
    /\ verifyLog = {}

\* no signed request is in flight
PlatformIdle ==
    /\ signature = "absent"
    /\ dispatched = <<>>

\* no request to the send API is in flight
NoApiRequest == [route |-> "none", authorization |-> JsUndefined, body |-> JsUndefined]

ApiIdle ==
    /\ apiReq = NoApiRequest
    /\ apiPc = "idle"
    /\ apiRes = <<>>
    /\ apiPosted = <<>>
    /\ apiCalls = <<>>

\* a field that a request body or a user does not have
Absent == "undefined"

\* the placeholder that the three mock users have for a password hash
MockHash == "$2a$10$rQZ8K9vX2mN3pL4qR5sT6uV7wX8yZ9aA0bB1cC2dE3fF4gG5hH6iI7jJ"

\* const mockUsers = [ ... ]    (createdAt left out)
InitialUsers ==
    << [id |-> "user_001", email |-> "admin@example.com", password |-> MockHash,
        role |-> "admin", sector |-> "all",
        firstName |-> "Admin", lastName |-> "User"],
       [id |-> "user_002", email |-> "manager@example.com", password |-> MockHash,
        role |-> "manager", sector |-> "education",
        firstName |-> "Education", lastName |-> "Manager"],
       [id |-> "user_003", email |-> "user@example.com", password |-> MockHash,
        role |-> "user", sector |-> "hospitality",
        firstName |-> "Cafe", lastName |-> "User"] >>

\* what a call asks: the email of the body, the userId and role of req.user,
\* the userId of req.params
NoAuthRequest == [email |-> Absent, userId |-> Absent, role |-> Absent, target |-> Absent]

\* no auth call has been made
NoAuthResponse ==
    [op |-> "none", status |-> 0, user |-> <<>>, token |-> <<>>, req |-> NoAuthRequest]

AuthIdle ==
    /\ mockUsers = InitialUsers
    /\ pending = {}
    /\ tokens = {}
    /\ now = 0
    /\ authCalls = 0
    /\ authRes = NoAuthResponse
    /\ deleted = {}

\* the classifier run does not take place in the webhook specification
ClassifierIdle ==
    /\ message = JsUndefined
    /\ controller = "WebhookController"
    /\ messageText = JsUndefined
    /\ sector = NoCompletion
    /\ response = NoReply
    /\ step = "idle"

\* the handler without the test of body.object
EntryOutcome_NoDiscriminator(b) ==
    LET ms == messagesOf(b) IN
    IF Truthy(ms)
    THEN IF Iterable(ms)
         THEN IF Len(ms.items) = 0
              THEN [res |-> <<OK200>>, pc |-> "responded"]
              ELSE [res |-> <<>>, pc |-> "loop"]
         ELSE [res |-> <<Error500>>, pc |-> "responded"]
    ELSE [res |-> <<OK200>>, pc |-> "responded"]

\* the handler with body.entry[0] in place of body.entry?.[0]: a body
\* without entry raises a TypeError, which the catch turns into a 500
EntryOutcome_NoOptionalChaining(b) ==
    IF Get(b, "object") = JsString(w_whatsapp_business_account)
    THEN IF Get(b, "entry").type \in {"undefined", "null"}
         THEN [res |-> <<Error500>>, pc |-> "responded"]
         ELSE LET ms == messagesOf(b) IN
              IF Truthy(ms)
              THEN IF Iterable(ms)
                   THEN IF Len(ms.items) = 0
                        THEN [res |-> <<OK200>>, pc |-> "responded"]
                        ELSE [res |-> <<>>, pc |-> "loop"]
                   ELSE [res |-> <<Error500>>, pc |-> "responded"]
              ELSE [res |-> <<OK200>>, pc |-> "responded"]
    ELSE [res |-> <<NotFound404>>, pc |-> "responded"]

\* the handler without its try / catch: the TypeError of a message list that
\* is not iterable rejects the handler's promise and nothing is sent on res
EntryOutcome_NoCatch(b) ==
    IF Get(b, "object") = JsString(w_whatsapp_business_account)
    THEN LET ms == messagesOf(b) IN
         IF Truthy(ms)
         THEN IF Iterable(ms)
              THEN IF Len(ms.items) = 0
                   THEN [res |-> <<OK200>>, pc |-> "responded"]
                   ELSE [res |-> <<>>, pc |-> "loop"]
              ELSE [res |-> <<>>, pc |-> "responded"]
         ELSE [res |-> <<OK200>>, pc |-> "responded"]
    ELSE [res |-> <<NotFound404>>, pc |-> "responded"]

\* the handler acknowledging a payload before it handles its messages
EntryOutcome_AckFirst(b) ==
    IF Get(b, "object") = JsString(w_whatsapp_business_account)
    THEN LET ms == messagesOf(b) IN
         IF Truthy(ms)
         THEN IF Iterable(ms)
              THEN IF Len(ms.items) = 0
                   THEN [res |-> <<OK200>>, pc |-> "responded"]
                   ELSE [res |-> <<OK200>>, pc |-> "loop"]
              ELSE [res |-> <<Error500>>, pc |-> "responded"]
         ELSE [res |-> <<OK200>>, pc |-> "responded"]
    ELSE [res |-> <<NotFound404>>, pc |-> "responded"]

\* handleWhatsAppWebhook / handleWebhook from entry to the first await, or to
\* the response when there is nothing to await: the discriminator test, the
\* optional chain, the if (value?.messages) guard and the start of the for-of
EntryOutcome(b) ==
    IF Get(b, "object") = JsString(w_whatsapp_business_account)
    THEN LET ms == messagesOf(b) IN
         IF Truthy(ms)
         THEN IF Iterable(ms)
              THEN IF Len(ms.items) = 0
                   THEN [res |-> <<OK200>>, pc |-> "responded"]
                   ELSE [res |-> <<>>, pc |-> "loop"]
              ELSE \* TypeError: not iterable, caught by the handler's catch
                   [res |-> <<Error500>>, pc |-> "responded"]
         ELSE [res |-> <<OK200>>, pc |-> "responded"]
    ELSE [res |-> <<NotFound404>>, pc |-> "responded"]

\* a POST arrives on one of the two webhook routes
Receive(r, b) ==
    /\ pc = "idle"
    /\ requests < MaxRequests
    /\ requests' = requests + 1
    /\ route' = r
    /\ body' = b
    /\ outcomes' = <<>>
    /\ classifyCalls' = 0
    /\ renderCalls' = 0
    /\ sendCalls' = <<>>
    /\ storeCalls' = <<>>
    /\ sendResults' = <<>>
    /\ storeFailed' = {}
    /\ idx' = 1
    /\ res' = EntryOutcome(b).res
    /\ pc' = EntryOutcome(b).pc
    /\ UNCHANGED history

\* the directions, among those of the records written, whose write failed
FailedWrites(directions, stored) ==
    {directions[i] : i \in {j \in 1..Len(directions) : ~stored[j]}}

\* after the await of message idx: the loop goes on, or the handler responds
Advance ==
    IF idx = Len(messagesOf(body).items)
    THEN res' = Append(res, OK200) /\ pc' = "responded" /\ idx' = idx
    ELSE res' = res /\ pc' = "loop" /\ idx' = idx + 1

\* processWhatsAppMessage without its catch: a write that raises escapes to
\* the catch of the handler, which answers 500 and leaves the loop
ProcessMessage_NoCatch(stored) ==
    /\ pc = "loop"
    /\ LET c == ControllerOf(route)
           m == messagesOf(body).items[idx]
           p == Pipeline(c, m)
       IN  /\ outcomes' = Append(outcomes, p)
           /\ classifyCalls' = classifyCalls + (IF p.sector.kind # "none" THEN 1 ELSE 0)
           /\ renderCalls' = renderCalls + (IF p.response.kind # "none" THEN 1 ELSE 0)
           /\ history' = IF p.response.kind # "return" THEN history
                         ELSE history \cup
                                {[route |-> route, phoneNumber |-> p.phoneNumber,
                                  text |-> p.messageText,
                                  sector |-> p.sector, response |-> p.response]}
           /\ IF p.threw
              THEN \* catch (error) { logger.error(...) }: nothing is written
                   /\ stored
                   /\ UNCHANGED <<sendCalls, storeCalls, storeFailed>>
                   /\ Advance
              ELSE IF ReplyTruthy(p.response.value) /\ c = "WhatsAppController"
              THEN \* await WhatsAppService.sendMessage(phoneNumber, response, sector)
                   /\ sendCalls' = Append(sendCalls,
                                      [to |-> p.phoneNumber, body |-> p.response.value,
                                       sector |-> p.sector.value])
                   /\ pc' = "sending"
                   /\ stored
                   /\ UNCHANGED <<storeCalls, storeFailed, res, idx>>
              ELSE \* WebhookController only logs "Automated response sent"
                   /\ storeCalls' = Append(storeCalls, InboundRecord(p))
                   /\ storeFailed' = storeFailed \cup FailedWrites(<<"inbound">>, <<stored>>)
                   /\ UNCHANGED sendCalls
                   /\ IF stored THEN Advance
                      ELSE res' = Append(res, Error500) /\ pc' = "responded" /\ idx' = idx
    /\ UNCHANGED <<route, body, sendResults, requests>>

\* processWhatsAppMessage / processIncomingMessage on message idx, up to the
\* await of the outbound send when there is one; stored tells whether the
\* write of WebhookController.storeMessage goes through (a write that raises
\* is caught by the catch of processWhatsAppMessage and logged)
ProcessMessage(stored) ==
    /\ pc = "loop"
    /\ LET c == ControllerOf(route)
           m == messagesOf(body).items[idx]
           p == Pipeline(c, m)
       IN  /\ outcomes' = Append(outcomes, p)
           /\ classifyCalls' = classifyCalls + (IF p.sector.kind # "none" THEN 1 ELSE 0)
           /\ renderCalls' = renderCalls + (IF p.response.kind # "none" THEN 1 ELSE 0)
           /\ history' = IF p.response.kind # "return" THEN history
                         ELSE history \cup
                                {[route |-> route, phoneNumber |-> p.phoneNumber,
                                  text |-> p.messageText,
                                  sector |-> p.sector, response |-> p.response]}
           /\ IF p.threw
              THEN \* catch (error) { logger.error(...) }: nothing is written
                   /\ stored
                   /\ UNCHANGED <<sendCalls, storeCalls, storeFailed>>
                   /\ Advance
              ELSE IF ReplyTruthy(p.response.value) /\ c = "WhatsAppController"
              THEN \* await WhatsAppService.sendMessage(phoneNumber, response, sector)
                   /\ sendCalls' = Append(sendCalls,
                                      [to |-> p.phoneNumber, body |-> p.response.value,
                                       sector |-> p.sector.value])
                   /\ pc' = "sending"
                   /\ stored
                   /\ UNCHANGED <<storeCalls, storeFailed, res, idx>>
              ELSE \* WebhookController only logs "Automated response sent"
                   /\ storeCalls' = Append(storeCalls, InboundRecord(p))
                   /\ storeFailed' = storeFailed \cup FailedWrites(<<"inbound">>, <<stored>>)
                   /\ UNCHANGED sendCalls
                   /\ Advance
    /\ UNCHANGED <<route, body, sendResults, requests>>

\* sendMessage with one more attempt after a failure: the reply is posted a
\* second time without being awaited
SendSettles_SendsAgain(ok, storedOut, storedIn) ==
    /\ pc = "sending"
    /\ ok \/ (storedOut /\ storedIn)
    /\ sendResults' = Append(sendResults, ok)
    /\ sendCalls' = IF ok THEN sendCalls
                    ELSE Append(sendCalls, sendCalls[Len(sendCalls)])
    /\ storeCalls' =
          IF ok
          THEN storeCalls \o << OutboundRecord(sendCalls[Len(sendCalls)]),
                                InboundRecord(outcomes[Len(outcomes)]) >>
          ELSE storeCalls
    /\ storeFailed' =
          IF ok
          THEN storeFailed
                 \cup FailedWrites(<<"outbound", "inbound">>, <<storedOut, storedIn>>)
          ELSE storeFailed
    /\ Advance
    /\ UNCHANGED <<route, body, outcomes, classifyCalls, renderCalls,
                   history, requests>>

\* the provider call of WhatsAppService.sendMessage settles: on success the
\* service stores the outbound record and the controller stores the inbound
\* one; on failure the service throws and the controller's catch logs.
\* storedOut and storedIn tell whether the two writes go through:
\* WhatsAppService.storeMessage catches a failed write and returns false
SendSettles(ok, storedOut, storedIn) ==
    /\ pc = "sending"
    /\ ok \/ (storedOut /\ storedIn)  \* nothing is written after a failed send
    /\ sendResults' = Append(sendResults, ok)
    /\ storeCalls' =
          IF ok
          THEN storeCalls \o << OutboundRecord(sendCalls[Len(sendCalls)]),
                                InboundRecord(outcomes[Len(outcomes)]) >>
          ELSE storeCalls
    /\ storeFailed' =
          IF ok
          THEN storeFailed
                 \cup FailedWrites(<<"outbound", "inbound">>, <<storedOut, storedIn>>)
          ELSE storeFailed
    /\ Advance
    /\ UNCHANGED <<route, body, outcomes, classifyCalls, renderCalls, sendCalls,
                   history, requests>>

\* the handler's promise resolves after the response
HandlerReturns ==
    /\ pc = "responded"
    /\ pc' = "idle"
    /\ body' = JsUndefined
    /\ idx' = 0
    /\ outcomes' = <<>>
    /\ classifyCalls' = 0
    /\ renderCalls' = 0
    /\ sendCalls' = <<>>
    /\ storeCalls' = <<>>
    /\ sendResults' = <<>>
    /\ storeFailed' = {}
    /\ res' = <<>>
    /\ UNCHANGED <<route, history, requests>>

WebhookNext ==
    \/ \E r \in Routes, b \in Bodies : Receive(r, b)
    \/ \E stored \in BOOLEAN : ProcessMessage(stored)
    \/ \E ok, storedOut, storedIn \in BOOLEAN : SendSettles(ok, storedOut, storedIn)
    \/ HandlerReturns

Init == WebhookInit /\ ClassifierIdle /\ VerifyIdle /\ PlatformIdle /\ ApiIdle /\ AuthIdle

Next ==
    WebhookNext /\ UNCHANGED <<classifierVars, verifyVars, platformVars, apiVars, authVars>>

Spec == Init /\ [][Next]_vars

ClassifierInit ==
    ClassifierStart /\ WebhookInit /\ VerifyIdle /\ PlatformIdle /\ ApiIdle /\ AuthIdle

SpecText == ClassifierInit /\ [][ClassifierNext]_vars

\* ------------------------------------------------------------------------
\* Webhook verification (GET)
\* ------------------------------------------------------------------------

\* res.status(code).send(value): a string is sent as it is, undefined gives
\* an empty body
send(code, value) ==
    [status |-> code, body |-> IF value.type = "string" THEN value.val ELSE <<>>]

\* verifyWhatsAppWebhook answering 403 with the challenge as body
Webhook_verifyWhatsAppWebhook_EchoOnFailure(q, secret) ==
    IF q.mode = JsString(w_subscribe) /\ q.token = secret
    THEN send(200, q.challenge)
    ELSE send(403, q.challenge)

\* WebhookController.verifyWhatsAppWebhook: === on the query values, which
\* are strings or undefined; nothing in the try block raises
Webhook_verifyWhatsAppWebhook(q, secret) ==
    IF q.mode = JsString(w_subscribe) /\ q.token = secret
    THEN send(200, q.challenge)
    ELSE send(403, JsString(w_Forbidden))

\* verifyWebhook with || in place of &&
WhatsApp_verifyWebhook_Either(q, secret) ==
    IF q.mode = JsString(w_subscribe) \/ q.token = secret
    THEN send(200, q.challenge)
    ELSE send(403, JsString(w_Forbidden))

\* WhatsAppController.verifyWebhook
WhatsApp_verifyWebhook(q, secret) ==
    IF q.mode = JsString(w_subscribe) /\ q.token = secret
    THEN send(200, q.challenge)
    ELSE send(403, JsString(w_Forbidden))

\* router.get("/whatsapp", WebhookController.verifyWhatsAppWebhook)
\* router.get("/webhook", WhatsAppController.verifyWebhook)
verifyWebhook(r, q, secret) ==
    IF ControllerOf(r) = "WebhookController"
    THEN Webhook_verifyWhatsAppWebhook(q, secret)
    ELSE WhatsApp_verifyWebhook(q, secret)

\* hub.mode: absent, the expected value, the expected value in capitals
Modes == {JsUndefined, JsString(w_subscribe), JsString(toUpperCase(w_subscribe))}

\* hub.verify_token: absent, the secret of the test setup, a prefix of it
VerifyTokens ==
    {JsUndefined, JsString(w_test_token),
     JsString(SubSeq(w_test_token, 1, Len(w_test_token) - 1))}

\* hub.challenge: absent, the challenge of the test, another one
Challenges ==
    {JsUndefined, JsString(<<"t", "e", "s", "t", "_", "c", "h", "a", "l", "l", "e", "n", "g", "e">>), JsString(<<"o", "t", "h", "e", "r">>)}

Queries ==
    {[mode |-> m, token |-> t, challenge |-> c] :
        m \in Modes, t \in VerifyTokens, c \in Challenges}

\* the secret is set as in the test setup, or not set at all
Secrets == {JsString(w_test_token), JsUndefined}

VerifyInit ==
    /\ WebhookInit
    /\ ClassifierIdle
    /\ PlatformIdle
    /\ ApiIdle
    /\ AuthIdle
    /\ env \in Secrets
    /\ query = NoQuery
    /\ verifyLog = {}

\* a GET arrives on one of the two verification routes and is answered
VerifyReceive(r, q) ==
    /\ pc = "idle"
    /\ requests < MaxRequests
    /\ requests' = requests + 1
    /\ route' = r
    /\ query' = q
    /\ res' = <<verifyWebhook(r, q, env)>>
    /\ pc' = "responded"
    /\ verifyLog' = verifyLog \cup
                      {[route |-> r, query |-> q, response |-> verifyWebhook(r, q, env)]}
    /\ UNCHANGED <<body, idx, outcomes, classifyCalls, renderCalls, sendCalls,
                   storeCalls, sendResults, storeFailed, history, env>>

\* the handler's promise resolves after the response
VerifyReturns ==
    /\ pc = "responded"
    /\ pc' = "idle"
    /\ query' = NoQuery
    /\ res' = <<>>
    /\ UNCHANGED <<route, body, idx, outcomes, classifyCalls, renderCalls, sendCalls,
                   storeCalls, sendResults, storeFailed, history, requests, env,
                   verifyLog>>

VerifyNext ==
    /\ \/ \E r \in Routes, q \in Queries : VerifyReceive(r, q)
       \/ VerifyReturns
    /\ UNCHANGED <<classifierVars, platformVars, apiVars, authVars>>

SpecVerify == VerifyInit /\ [][VerifyNext]_vars

\* ------------------------------------------------------------------------
\* Signed webhooks (POST): Facebook, Instagram, Meta Pixel and WhatsApp
\* ------------------------------------------------------------------------

Platforms == {"facebook", "instagram", "meta-pixel"}

\* router.post("/facebook", ...), ("/instagram", ...), ("/meta-pixel", ...)
PlatformRoute(p) ==
    CASE p = "facebook" -> "/api/webhooks/facebook"
      [] p = "instagram" -> "/api/webhooks/instagram"
      [] p = "meta-pixel" -> "/api/webhooks/meta-pixel"

\* the value of body.object each handler accepts
Discriminator(p) ==
    CASE p = "facebook" -> w_page
      [] p = "instagram" -> <<"i", "n", "s", "t", "a", "g", "r", "a", "m">>
      [] p = "meta-pixel" -> <<"a", "d", "_", "a", "c", "c", "o", "u", "n", "t">>

\* the case labels of the switch (field) of each process*Change
HandledFields(p) ==
    CASE p = "facebook" ->
            { <<"m", "e", "s", "s", "a", "g", "e", "s">>,
              <<"m", "e", "s", "s", "a", "g", "i", "n", "g", "_", "p", "o", "s", "t", "b", "a", "c", "k", "s">>,
              <<"l", "e", "a", "d", "g", "e", "n">> }
      [] p = "instagram" ->
            { <<"m", "e", "n", "t", "i", "o", "n", "s">>,
              <<"s", "t", "o", "r", "y", "_", "m", "e", "n", "t", "i", "o", "n", "s">>,
              <<"c", "o", "m", "m", "e", "n", "t", "s">> }
      [] p = "meta-pixel" ->
            { <<"a", "d", "_", "a", "c", "c", "o", "u", "n", "t">>,
              <<"c", "a", "m", "p", "a", "i", "g", "n">>,
              <<"a", "d", "s", "e", "t">> }

\* verifyFacebookWebhookSignature(req): return true; // Placeholder
verifyFacebookWebhookSignature(sig) == TRUE

\* verifyInstagramWebhookSignature(req): return true; // Placeholder
verifyInstagramWebhookSignature(sig) == TRUE

\* verifyMetaPixelWebhookSignature(req): return true; // Placeholder
verifyMetaPixelWebhookSignature(sig) == TRUE

verifyWebhookSignature(p, sig) ==
    CASE p = "facebook" -> verifyFacebookWebhookSignature(sig)
      [] p = "instagram" -> verifyInstagramWebhookSignature(sig)
      [] p = "meta-pixel" -> verifyMetaPixelWebhookSignature(sig)

\* processFacebookChange / processInstagramChange / processMetaPixelChange:
\* what the call does with the change: "threw" when the destructuring of a
\* null change raises (caught and logged), "handled" when a case of the
\* switch takes it, "unhandled" in the default case
processChange(p, change) ==
    IF change.type \in {"null", "undefined"} THEN "threw"
    ELSE LET field == Get(change, "field") IN
         IF field.type = "string" /\ field.val \in HandledFields(p)
         THEN "handled"
         ELSE "unhandled"

Unauthorized401 == [status |-> 401, body |-> "Unauthorized"]

\* the loop over entry.changes leaving at the first change whose processing
\* raised
DispatchChanges_StopAtFailure(p, changes) ==
    LET bad == {i \in 1..Len(changes) : processChange(p, changes[i]) = "threw"}
        n == IF bad = {} THEN Len(changes)
             ELSE CHOOSE i \in bad : \A j \in bad : i <= j
    IN  [i \in 1..n |-> [change |-> changes[i], did |-> processChange(p, changes[i])]]

\* for (const change of entry.changes) await process*Change(change)
DispatchChanges(p, changes) ==
    [i \in 1..Len(changes) |-> [change |-> changes[i], did |-> processChange(p, changes[i])]]

RECURSIVE DispatchEntries(_, _, _)
\* for (const entry of body.entry): an entry that is null, or whose changes
\* cannot be iterated, raises a TypeError that leaves both loops
DispatchEntries(p, entries, done) ==
    IF entries = <<>> THEN [threw |-> FALSE, dispatched |-> done]
    ELSE LET entry == entries[1]
             changes == OptGet(entry, "changes")
         IN  IF entry.type \in {"null", "undefined"} \/ ~Iterable(changes)
             THEN [threw |-> TRUE, dispatched |-> done]
             ELSE DispatchEntries(p, Tail(entries),
                                  done \o DispatchChanges(p, changes.items))

\* handleFacebookWebhook / handleInstagramWebhook / handleMetaPixelWebhook
PlatformOutcome(p, sig, b) ==
    IF ~verifyWebhookSignature(p, sig)
    THEN [res |-> <<Unauthorized401>>, dispatched |-> <<>>]
    ELSE IF Get(b, "object") = JsString(Discriminator(p))
    THEN IF ~Iterable(Get(b, "entry"))
         THEN [res |-> <<Error500>>, dispatched |-> <<>>]
         ELSE LET d == DispatchEntries(p, Get(b, "entry").items, <<>>) IN
              [res |-> IF d.threw THEN <<Error500>> ELSE <<OK200>>,
               dispatched |-> d.dispatched]
    ELSE [res |-> <<NotFound404>>, dispatched |-> <<>>]

\* the header of a POST: the HMAC of the body under the app secret, another
\* value, or no header
Signatures == {"valid", "invalid", "absent"}

\* the changes a generated payload may carry: one per case label, one with
\* an unknown field, and a null element
PlatformChanges(p) ==
    { JsObject([field |-> JsString(f), value |-> JsObject(<<>>)]) :
        f \in HandledFields(p) \cup { <<"f", "e", "e", "d">> } }
        \cup { JsNull }

ChangeLists(p) == UNION { [1..n -> PlatformChanges(p)] : n \in 0..MaxMessages }

\* the values of body.entry: one entry with its changes, a second entry
\* without changes, no array
PlatformEntries(p) ==
    { JsArray(<<JsObject([changes |-> JsArray(cs)])>>) : cs \in ChangeLists(p) }
        \cup { JsArray(<<JsObject([changes |-> JsArray(cs)]), JsObject(<<>>)>>) :
                  cs \in ChangeLists(p) }
        \cup { JsArray(<<>>), JsArray(<<JsNull>>), JsUndefined }

\* the bodies sent to each platform route, with its discriminator or with
\* the one of WhatsApp
PlatformBodies ==
    [p \in Platforms |->
        { JsObject([object |-> JsString(o), entry |-> e]) :
            o \in {Discriminator(p), w_whatsapp_business_account},
            e \in PlatformEntries(p) }]

\* a POST arrives on the route of one of the three platforms and is answered
HandlePlatform(p, sig, b) ==
    /\ pc = "idle"
    /\ requests < MaxRequests
    /\ requests' = requests + 1
    /\ route' = PlatformRoute(p)
    /\ body' = b
    /\ signature' = sig
    /\ res' = PlatformOutcome(p, sig, b).res
    /\ dispatched' = PlatformOutcome(p, sig, b).dispatched
    /\ pc' = "responded"
    /\ UNCHANGED <<idx, outcomes, classifyCalls, renderCalls, sendCalls, storeCalls,
                   sendResults, storeFailed, history>>

\* a POST with its signature header arrives on one of the two WhatsApp routes
SignedReceive(r, sig, b) ==
    /\ Receive(r, b)
    /\ signature' = sig
    /\ dispatched' = <<>>

\* the handler's promise resolves after the response
SignedReturns ==
    /\ HandlerReturns
    /\ signature' = "absent"
    /\ dispatched' = <<>>

SignedNext ==
    /\ \/ \E p \in Platforms, sig \in Signatures :
             \E b \in PlatformBodies[p] : HandlePlatform(p, sig, b)
       \/ \E r \in Routes, sig \in Signatures, b \in Bodies : SignedReceive(r, sig, b)
       \/ (\E stored \in BOOLEAN : ProcessMessage(stored)) /\ UNCHANGED platformVars
       \/ (\E ok, storedOut, storedIn \in BOOLEAN : SendSettles(ok, storedOut, storedIn))
             /\ UNCHANGED platformVars
       \/ SignedReturns
    /\ UNCHANGED <<classifierVars, verifyVars, apiVars, authVars>>

SpecSigned == Init /\ [][SignedNext]_vars

\* the three platform handlers alone
PlatformNext ==
    /\ \/ \E p \in Platforms, sig \in Signatures :
             \E b \in PlatformBodies[p] : HandlePlatform(p, sig, b)
       \/ SignedReturns
    /\ UNCHANGED <<classifierVars, verifyVars, apiVars, authVars>>

SpecPlatform == Init /\ [][PlatformNext]_vars

\* ------------------------------------------------------------------------
\* The send API: POST /api/whatsapp/send-message and /send-template
\* (routes/whatsapp.js 47-52 and 86-91)
\* ------------------------------------------------------------------------

SendRoutes == {"/api/whatsapp/send-message", "/api/whatsapp/send-template"}

s_education == <<"e", "d", "u", "c", "a", "t", "i", "o", "n">>

s_hospitality == <<"h", "o", "s", "p", "i", "t", "a", "l", "i", "t", "y">>

s_investment == <<"i", "n", "v", "e", "s", "t", "m", "e", "n", "t">>

\* a token signed with JWT_SECRET that has not expired
ValidJwt == <<"j", "w", "t", ".", "o", "k">>

\* a token signed with JWT_SECRET that has expired
ExpiredJwt == <<"j", "w", "t", ".", "o", "l", "d">>

\* jwt.verify(token, process.env.JWT_SECRET, callback): the name of the error
\* handed to the callback, "none" when the token verifies
jwtVerify(token) ==
    IF token = ValidJwt THEN "none"
    ELSE IF token = ExpiredJwt THEN "TokenExpiredError"
    ELSE "JsonWebTokenError"

\* s.split(' ')[1]: what stands between the first and the second space,
\* undefined when s has no space
splitSecond(s) ==
    LET spaces == {i \in 1..Len(s) : s[i] = " "} IN
    IF spaces = {} THEN JsUndefined
    ELSE LET first == CHOOSE i \in spaces : \A j \in spaces : i <= j
             later == {i \in spaces : i > first}
             stop == IF later = {} THEN Len(s) + 1
                     ELSE CHOOSE i \in later : \A j \in later : i <= j
         IN  JsString(SubSeq(s, first + 1, stop - 1))

\* what errorHandler sends for an error made by createError(statusCode, message)
ErrorResponse(statusCode, text) ==
    [status |-> statusCode, success |-> FALSE, message |-> text]

\* the check of the token left out: every request goes on to validation
authenticateToken_NoCheck(authHeader) ==
    [next |-> TRUE, error |-> ErrorResponse(0, "")]

\* authenticateToken(req, res, next): next() or next(error)
authenticateToken(authHeader) ==
    LET token == IF Truthy(authHeader) THEN splitSecond(authHeader.val) ELSE authHeader IN
    IF ~Truthy(token)
    THEN [next |-> FALSE, error |-> ErrorResponse(401, "Access token required")]
    ELSE LET err == jwtVerify(token.val) IN
         IF err = "none"
         THEN [next |-> TRUE, error |-> ErrorResponse(0, "")]
         ELSE IF err = "TokenExpiredError"
         THEN [next |-> FALSE, error |-> ErrorResponse(401, "Token expired")]
         ELSE [next |-> FALSE, error |-> ErrorResponse(401, "Invalid token")]

Digits == {"0", "1", "2", "3", "4", "5", "6", "7", "8", "9"}

\* /^\+?[1-9]\d{1,14}$/.test(s)
PhonePattern(s) ==
    LET d == IF s # <<>> /\ s[1] = "+" THEN Tail(s) ELSE s IN
    /\ Len(d) >= 2
    /\ Len(d) <= 15
    /\ d[1] \in Digits \ {"0"}
    /\ \A i \in 2..Len(d) : d[i] \in Digits

\* Joi.string().max(4096)
MaxMessageLength == 4096

\* Joi.string().required(): a string that is not empty
JoiString(v) == v.type = "string" /\ v.val # <<>>

\* Joi.string().valid('education', 'hospitality', 'investment').required()
JoiSector(v) == JoiString(v) /\ v.val \in {s_education, s_hospitality, s_investment}

\* the keys of whatsAppMessageSchema that the body fails
whatsAppMessageSchema(b) ==
    {k \in {"phoneNumber"} : ~(JoiString(Get(b, k)) /\ PhonePattern(Get(b, k).val))}
        \cup {k \in {"message"} :
                 ~(JoiString(Get(b, k)) /\ Len(Get(b, k).val) <= MaxMessageLength)}
        \cup {k \in {"sector"} : ~JoiSector(Get(b, k))}

\* the keys of templateSchema that the body fails
templateSchema(b) ==
    {k \in {"phoneNumber"} : ~(JoiString(Get(b, k)) /\ PhonePattern(Get(b, k).val))}
        \cup {k \in {"templateName"} : ~JoiString(Get(b, k))}
        \cup {k \in {"sector"} : ~JoiSector(Get(b, k))}
        \cup {k \in {"parameters"} : Get(b, k).type \notin {"undefined", "object"}}

\* validate(schema, 'body'): next(createError(400, ...)) when the schema
\* reports an error, else req.body = value (unknown keys stripped) and next()
validate(failed, b, keys) ==
    IF failed # {}
    THEN [next |-> FALSE, error |-> ErrorResponse(400, "Validation error"), value |-> b]
    ELSE [next |-> TRUE, error |-> ErrorResponse(0, ""),
          value |-> JsObject([k \in DOMAIN b.fields \cap keys |-> b.fields[k]])]

validateWhatsAppMessage(b) ==
    validate(whatsAppMessageSchema(b), b, {"phoneNumber", "message", "sector"})

validateTemplate(b) ==
    validate(templateSchema(b), b, {"phoneNumber", "templateName", "sector", "parameters"})

\* WhatsAppService.getAllTemplates()
getAllTemplates ==
    << [name |-> <<"e", "d", "u", "c", "a", "t", "i", "o", "n", "_", "o", "r", "d", "e", "r", "_", "c", "o", "n", "f", "i", "r", "m", "a", "t", "i", "o", "n">>,
        sector |-> s_education, language |-> "en_US", header |-> TRUE, body |-> TRUE,
        buttons |-> FALSE, parameters |-> <<"order_number", "delivery_time", "location">>],
       [name |-> <<"e", "d", "u", "c", "a", "t", "i", "o", "n", "_", "m", "e", "n", "u", "_", "u", "p", "d", "a", "t", "e">>,
        sector |-> s_education, language |-> "en_US", header |-> TRUE, body |-> TRUE,
        buttons |-> FALSE, parameters |-> <<"menu_items">>],
       [name |-> <<"e", "d", "u", "c", "a", "t", "i", "o", "n", "_", "d", "e", "l", "i", "v", "e", "r", "y", "_", "r", "e", "m", "i", "n", "d", "e", "r">>,
        sector |-> s_education, language |-> "en_US", header |-> TRUE, body |-> TRUE,
        buttons |-> FALSE, parameters |-> <<"delivery_time">>],
       [name |-> <<"c", "a", "f", "e", "_", "r", "e", "s", "e", "r", "v", "a", "t", "i", "o", "n", "_", "c", "o", "n", "f", "i", "r", "m", "a", "t", "i", "o", "n">>,
        sector |-> s_hospitality, language |-> "en_US", header |-> TRUE, body |-> TRUE,
        buttons |-> FALSE, parameters |-> <<"date", "time", "party_size">>],
       [name |-> <<"c", "a", "f", "e", "_", "s", "p", "e", "c", "i", "a", "l", "_", "o", "f", "f", "e", "r">>,
        sector |-> s_hospitality, language |-> "en_US", header |-> TRUE, body |-> TRUE,
        buttons |-> FALSE, parameters |-> <<"offer_description", "expiry_date">>],
       [name |-> <<"c", "a", "f", "e", "_", "l", "o", "y", "a", "l", "t", "y", "_", "u", "p", "d", "a", "t", "e">>,
        sector |-> s_hospitality, language |-> "en_US", header |-> TRUE, body |-> TRUE,
        buttons |-> FALSE, parameters |-> <<"earned_points", "total_points">>],
       [name |-> <<"i", "n", "v", "e", "s", "t", "m", "e", "n", "t", "_", "p", "o", "r", "t", "f", "o", "l", "i", "o", "_", "u", "p", "d", "a", "t", "e">>,
        sector |-> s_investment, language |-> "en_US", header |-> TRUE, body |-> TRUE,
        buttons |-> FALSE, parameters |-> <<"portfolio_value", "monthly_return", "ytd_return">>],
       [name |-> <<"i", "n", "v", "e", "s", "t", "m", "e", "n", "t", "_", "m", "e", "e", "t", "i", "n", "g", "_", "s", "c", "h", "e", "d", "u", "l", "i", "n", "g">>,
        sector |-> s_investment, language |-> "en_US", header |-> TRUE, body |-> TRUE,
        buttons |-> FALSE, parameters |-> <<"available_times">>],
       [name |-> <<"i", "n", "v", "e", "s", "t", "m", "e", "n", "t", "_", "m", "a", "r", "k", "e", "t", "_", "a", "l", "e", "r", "t">>,
        sector |-> s_investment, language |-> "en_US", header |-> TRUE, body |-> TRUE,
        buttons |-> FALSE, parameters |-> <<"alert_type", "market_impact">>] >>

NoTemplate == [name |-> <<>>, sector |-> <<>>, language |-> "", header |-> FALSE,
               body |-> FALSE, buttons |-> FALSE, parameters |-> <<>>]

\* WhatsAppService.getTemplateByName(templateName, sector): the first template
\* of that name and sector, NoTemplate for undefined
getTemplateByName(templateName, sectorName) ==
    LET hit == {i \in 1..Len(getAllTemplates) :
                   /\ JsString(getAllTemplates[i].name) = templateName
                   /\ JsString(getAllTemplates[i].sector) = sectorName} IN
    IF hit = {} THEN NoTemplate
    ELSE getAllTemplates[CHOOSE i \in hit : \A j \in hit : i <= j]

\* WhatsAppService.buildTemplateComponents(template, parameters): the types
\* of the components pushed
buildTemplateComponents(template, parameters) ==
    (IF template.header /\ Truthy(Get(parameters, "header")) THEN <<"header">> ELSE <<>>)
        \o (IF template.body /\ Truthy(Get(parameters, "body")) THEN <<"body">> ELSE <<>>)
        \o (IF template.buttons /\ Truthy(Get(parameters, "buttons"))
            THEN <<"button">> ELSE <<>>)

\* the payload WhatsAppService.sendMessage posts
TextPayload(b) ==
    [messaging_product |-> "whatsapp", to |-> Get(b, "phoneNumber"), type |-> "text",
     text |-> Get(b, "message"), template |-> <<>>, components |-> <<>>]

\* the payload WhatsAppService.sendTemplateMessage posts; parameters = {}
\* when the caller passes undefined
TemplatePayload(b) ==
    LET template == getTemplateByName(Get(b, "templateName"), Get(b, "sector"))
        given == Get(b, "parameters")
        parameters == IF given.type = "undefined" THEN JsObject(<<>>) ELSE given
    IN  [messaging_product |-> "whatsapp", to |-> Get(b, "phoneNumber"),
         type |-> "template", text |-> JsUndefined, template |-> template.name,
         components |->
             IF template.parameters # <<>> /\ DOMAIN parameters.fields # {}
             THEN buildTemplateComponents(template, parameters)
             ELSE <<>>]

\* a POST arrives on one of the two routes
ApiReceive(r, a, b) ==
    /\ apiPc = "idle"
    /\ apiReq' = [route |-> r, authorization |-> a, body |-> b]
    /\ apiPc' = "authenticateToken"
    /\ UNCHANGED <<apiRes, apiPosted, apiCalls>>

\* router.post(..., authenticateToken, ...)
AuthenticateToken ==
    /\ apiPc = "authenticateToken"
    /\ LET o == authenticateToken(apiReq.authorization) IN
       IF o.next
       THEN apiPc' = "validate" /\ UNCHANGED apiRes
       ELSE apiPc' = "responded" /\ apiRes' = <<o.error>>
    /\ UNCHANGED <<apiReq, apiPosted, apiCalls>>

\* router.post(..., validateWhatsAppMessage | validateTemplate, ...)
Validate ==
    /\ apiPc = "validate"
    /\ LET o == IF apiReq.route = "/api/whatsapp/send-message"
                THEN validateWhatsAppMessage(apiReq.body)
                ELSE validateTemplate(apiReq.body) IN
       IF o.next
       THEN /\ apiPc' = "controller"
            /\ apiReq' = [apiReq EXCEPT !.body = o.value]
            /\ UNCHANGED apiRes
       ELSE /\ apiPc' = "responded"
            /\ apiRes' = <<o.error>>
            /\ UNCHANGED apiReq
    /\ UNCHANGED <<apiPosted, apiCalls>>

\* WhatsAppController.sendMessage up to the await of the service's post
SendMessage ==
    /\ apiPc = "controller"
    /\ apiReq.route = "/api/whatsapp/send-message"
    /\ apiCalls' = Append(apiCalls, "sendMessage")
    /\ apiPosted' = Append(apiPosted, TextPayload(apiReq.body))
    /\ apiPc' = "posting"
    /\ UNCHANGED <<apiReq, apiRes>>

\* WhatsAppController.sendTemplateMessage up to the await of the service's
\* post; an unknown template is a 400 thrown inside the service's try, which
\* its catch turns into a 500
SendTemplateMessage ==
    /\ apiPc = "controller"
    /\ apiReq.route = "/api/whatsapp/send-template"
    /\ apiCalls' = Append(apiCalls, "sendTemplateMessage")
    /\ IF getTemplateByName(Get(apiReq.body, "templateName"),
                            Get(apiReq.body, "sector")) = NoTemplate
       THEN /\ apiRes' = <<ErrorResponse(500, "Failed to send template message")>>
            /\ apiPc' = "responded"
            /\ UNCHANGED apiPosted
       ELSE /\ apiPosted' = Append(apiPosted, TemplatePayload(apiReq.body))
            /\ apiPc' = "posting"
            /\ UNCHANGED apiRes
    /\ UNCHANGED apiReq

\* the post to the WhatsApp Business API settles; storeMessage swallows its
\* own failures, so only the post decides between 200 and 500
PostSettles(ok) ==
    /\ apiPc = "posting"
    /\ apiRes' =
          IF ~ok
          THEN <<ErrorResponse(500, IF apiReq.route = "/api/whatsapp/send-message"
                                    THEN "Failed to send WhatsApp message"
                                    ELSE "Failed to send template message")>>
          ELSE <<[status |-> 200, success |-> TRUE,
                  message |-> IF apiReq.route = "/api/whatsapp/send-message"
                              THEN "Message sent successfully"
                              ELSE "Template message sent successfully"]>>
    /\ apiPc' = "responded"
    /\ UNCHANGED <<apiReq, apiPosted, apiCalls>>

\* the request is over
ApiReturns ==
    /\ apiPc = "responded"
    /\ apiReq' = NoApiRequest
    /\ apiPc' = "idle"
    /\ apiRes' = <<>>
    /\ apiPosted' = <<>>
    /\ apiCalls' = <<>>

\* Authorization headers: none, a scheme alone, Bearer with a valid, an
\* expired and a malformed token, and Basic with a valid token
AuthorizationHeaders ==
    { JsUndefined,
      JsString(<<"B", "e", "a", "r", "e", "r">>),
      JsString(<<"B", "e", "a", "r", "e", "r", " ">> \o ValidJwt),
      JsString(<<"B", "e", "a", "r", "e", "r", " ">> \o ExpiredJwt),
      JsString(<<"B", "e", "a", "r", "e", "r", " ", "x">>),
      JsString(<<"B", "a", "s", "i", "c", " ">> \o ValidJwt) }

ValidPhone == JsString(<<"+", "1", "2", "3", "4", "5", "6", "7", "8", "9", "0">>)

InvalidPhones ==
    { JsString(<<"i", "n", "v", "a", "l", "i", "d">>), JsString(<<"0", "1", "2", "3">>), JsUndefined }

BodySectors == { JsString(s_education), JsString(s_hospitality), JsString(<<"o", "t", "h", "e", "r">>) }

\* the fields of a body that are not undefined
Body(f) == JsObject([k \in {k \in DOMAIN f : f[k] # JsUndefined} |-> f[k]])

MessageBodies ==
    { Body([phoneNumber |-> p, message |-> m, sector |-> s]) :
        p \in {ValidPhone} \cup InvalidPhones,
        m \in {JsString(<<"T", "e", "s", "t">>), JsString(<<>>), JsUndefined},
        s \in BodySectors }

TemplateNames ==
    { JsString(getAllTemplates[1].name), JsString(getAllTemplates[5].name),
      JsString(<<"u", "n", "k", "n", "o", "w", "n">>), JsUndefined }

TemplateParameters ==
    { JsUndefined, JsObject(<<>>),
      JsObject([order_number |-> JsString(<<"E", "D", "U", "0", "0", "1">>)]),
      JsObject([body |-> JsString(<<"x">>)]),
      JsString(<<"x">>) }

TemplateBodies ==
    { Body([phoneNumber |-> p, templateName |-> n, sector |-> s, parameters |-> ps]) :
        p \in {ValidPhone, JsString(<<"i", "n", "v", "a", "l", "i", "d">>)},
        n \in TemplateNames, s \in BodySectors, ps \in TemplateParameters }

ApiNext ==
    /\ \/ \E a \in AuthorizationHeaders, b \in MessageBodies :
             ApiReceive("/api/whatsapp/send-message", a, b)
       \/ \E a \in AuthorizationHeaders, b \in TemplateBodies :
             ApiReceive("/api/whatsapp/send-template", a, b)
       \/ AuthenticateToken
       \/ Validate
       \/ SendMessage
       \/ SendTemplateMessage
       \/ \E ok \in BOOLEAN : PostSettles(ok)
       \/ ApiReturns
    /\ UNCHANGED <<classifierVars, webhookVars, verifyVars, platformVars, authVars>>

SpecSend == Init /\ [][ApiNext]_vars

\* ------------------------------------------------------------------------
\* The auth controller (controllers/authController.js)
\* ------------------------------------------------------------------------

\* most auth calls of a run
MaxAuthCalls == 4

\* process.env.NODE_ENV
NODE_ENV == "test"

\* bcrypt.hash(password, saltRounds)
bcryptHash(password) == "$2a$10$" \o password

\* bcrypt.compare(password, hash): false for the placeholder, which is no
\* bcrypt hash
bcryptCompare(password, hash) == hash # MockHash /\ hash = bcryptHash(password)

\* jwt.sign({ userId, email, role, sector }, process.env.JWT_SECRET, ...)
jwtSign(user) ==
    [userId |-> user.id, email |-> user.email, role |-> user.role, sector |-> user.sector]

\* the user as it is stored, password included
WithoutPassword_Keep(user) == user

\* const { password: _, ...userWithoutPassword } = user
WithoutPassword(user) == [k \in DOMAIN user \ {"password"} |-> user[k]]

\* mockUsers.findIndex(pred): the first index whose user meets pred, 0 for -1
findIndex(users, pred(_)) ==
    LET hit == {i \in 1..Len(users) : pred(users[i])} IN
    IF hit = {} THEN 0 ELSE CHOOSE i \in hit : \A j \in hit : i <= j

\* mockUsers.splice(userIndex, 1)
splice(users, userIndex) ==
    SubSeq(users, 1, userIndex - 1) \o SubSeq(users, userIndex + 1, Len(users))

\* res.status(code).json(...) or next(error), with what was asked
AuthResponse(op, code, users, signed, email, claims, target) ==
    [op |-> op, status |-> code, user |-> users, token |-> signed,
     req |-> [email |-> email, userId |-> claims.userId, role |-> claims.role,
              target |-> target]]

NoClaims == [userId |-> Absent, email |-> Absent, role |-> Absent, sector |-> Absent]

\* a suspended call that has no body to remember
NoBody ==
    [email |-> Absent, password |-> Absent, firstName |-> Absent, lastName |-> Absent,
     role |-> Absent, sector |-> Absent]

\* AuthController.login
Login(email, password) ==
    /\ authCalls < MaxAuthCalls
    /\ authCalls' = authCalls + 1
    /\ LET userIndex == findIndex(mockUsers, LAMBDA u : u.email = email)
           allowMock == NODE_ENV \in {"development", "test"}
       IN  IF userIndex = 0
           THEN /\ authRes' = AuthResponse("login", 401, <<>>, <<>>, email, NoClaims, Absent)
                /\ UNCHANGED tokens
           ELSE LET user == mockUsers[userIndex]
                    isValidPassword ==
                        \/ bcryptCompare(password, user.password)
                        \/ allowMock /\ password = "password123"
                IN  IF ~isValidPassword
                    THEN /\ authRes' = AuthResponse("login", 401, <<>>, <<>>, email,
                                                    NoClaims, Absent)
                         /\ UNCHANGED tokens
                    ELSE /\ authRes' = AuthResponse("login", 200, <<WithoutPassword(user)>>,
                                                    <<jwtSign(user)>>, email, NoClaims, Absent)
                         /\ tokens' = tokens \cup {jwtSign(user)}
    /\ UNCHANGED <<mockUsers, pending, now, deleted>>

\* AuthController.register up to await bcrypt.hash(password, saltRounds)
RegisterBegin(b) ==
    /\ authCalls < MaxAuthCalls
    /\ authCalls' = authCalls + 1
    /\ LET role == IF b.role = Absent THEN "user" ELSE b.role IN
       IF findIndex(mockUsers, LAMBDA u : u.email = b.email) # 0
       THEN /\ authRes' = AuthResponse("register", 409, <<>>, <<>>, b.email, NoClaims, Absent)
            /\ UNCHANGED <<pending, deleted>>
       ELSE IF role = "user" /\ b.sector = Absent
       THEN /\ authRes' = AuthResponse("register", 400, <<>>, <<>>, b.email, NoClaims, Absent)
            /\ UNCHANGED <<pending, deleted>>
       ELSE /\ pending' = pending \cup
                  {[op |-> "register", call |-> authCalls + 1,
                    body |-> [b EXCEPT !.role = role], claims |-> NoClaims,
                    userIndex |-> 0, valid |-> TRUE, newPassword |-> Absent]}
            /\ deleted' = {d \in deleted : d.email # b.email}
            /\ UNCHANGED authRes
    /\ UNCHANGED <<mockUsers, tokens, now>>

\* AuthController.register from the await on: Date.now() is read after the
\* hash is there, and the clock has moved on or not
RegisterResume(p) ==
    /\ p \in pending
    /\ p.op = "register"
    /\ pending' = pending \ {p}
    /\ \E t \in {now, now + 1} :
          LET newUser ==
                  [id |-> "user_" \o ToString(t), email |-> p.body.email,
                   password |-> bcryptHash(p.body.password),
                   role |-> p.body.role,
                   sector |-> IF p.body.role = "admin" THEN "all" ELSE p.body.sector,
                   firstName |-> p.body.firstName, lastName |-> p.body.lastName]
          IN  /\ now' = t
              /\ mockUsers' = Append(mockUsers, newUser)
              /\ tokens' = tokens \cup {jwtSign(newUser)}
              /\ authRes' = AuthResponse("register", 201, <<WithoutPassword(newUser)>>,
                                         <<jwtSign(newUser)>>, p.body.email, NoClaims, Absent)
    /\ UNCHANGED <<authCalls, deleted>>

\* AuthController.getProfile
GetProfile(claims) ==
    /\ authCalls < MaxAuthCalls
    /\ authCalls' = authCalls + 1
    /\ LET userIndex == findIndex(mockUsers, LAMBDA u : u.id = claims.userId) IN
       authRes' =
           IF userIndex = 0
           THEN AuthResponse("getProfile", 404, <<>>, <<>>, Absent, claims, Absent)
           ELSE AuthResponse("getProfile", 200, <<WithoutPassword(mockUsers[userIndex])>>,
                             <<>>, Absent, claims, Absent)
    /\ UNCHANGED <<mockUsers, pending, tokens, now, deleted>>

\* AuthController.updateProfile
UpdateProfile(claims, firstName, lastName, newSector) ==
    /\ authCalls < MaxAuthCalls
    /\ authCalls' = authCalls + 1
    /\ LET userIndex == findIndex(mockUsers, LAMBDA u : u.id = claims.userId) IN
       IF userIndex = 0
       THEN /\ authRes' = AuthResponse("updateProfile", 404, <<>>, <<>>, Absent, claims, Absent)
            /\ UNCHANGED mockUsers
       ELSE LET old == mockUsers[userIndex]
                new == [old EXCEPT
                          !.firstName = IF firstName # Absent THEN firstName ELSE @,
                          !.lastName = IF lastName # Absent THEN lastName ELSE @,
                          !.sector = IF newSector # Absent /\ claims.role # "admin"
                                     THEN newSector ELSE @]
            IN  /\ mockUsers' = [mockUsers EXCEPT ![userIndex] = new]
                /\ authRes' = AuthResponse("updateProfile", 200, <<WithoutPassword(new)>>,
                                           <<>>, Absent, claims, Absent)
    /\ UNCHANGED <<pending, tokens, now, deleted>>

\* AuthController.changePassword up to await bcrypt.compare(currentPassword,
\* mockUsers[userIndex].password)
ChangePasswordBegin(claims, currentPassword, newPassword) ==
    /\ authCalls < MaxAuthCalls
    /\ authCalls' = authCalls + 1
    /\ LET userIndex == findIndex(mockUsers, LAMBDA u : u.id = claims.userId) IN
       IF userIndex = 0
       THEN /\ authRes' = AuthResponse("changePassword", 404, <<>>, <<>>, Absent, claims, Absent)
            /\ UNCHANGED pending
       ELSE /\ pending' = pending \cup
                  {[op |-> "changePassword", call |-> authCalls + 1,
                    body |-> NoBody, claims |-> claims, userIndex |-> userIndex,
                    valid |-> bcryptCompare(currentPassword, mockUsers[userIndex].password),
                    newPassword |-> newPassword]}
            /\ UNCHANGED authRes
    /\ UNCHANGED <<mockUsers, tokens, now, deleted>>

\* AuthController.changePassword after its awaits: the hash is written at the
\* index found before them; setting a property of undefined is a TypeError,
\* which the error handler answers with 500
ChangePasswordResume(p) ==
    /\ p \in pending
    /\ p.op = "changePassword"
    /\ pending' = pending \ {p}
    /\ LET claims == p.claims IN
       IF ~p.valid
       THEN /\ authRes' = AuthResponse("changePassword", 400, <<>>, <<>>, Absent, claims, Absent)
            /\ UNCHANGED mockUsers
       ELSE IF p.userIndex > Len(mockUsers)
       THEN /\ authRes' = AuthResponse("changePassword", 500, <<>>, <<>>, Absent, claims, Absent)
            /\ UNCHANGED mockUsers
       ELSE /\ mockUsers' = [mockUsers EXCEPT
                                ![p.userIndex].password = bcryptHash(p.newPassword)]
            /\ authRes' = AuthResponse("changePassword", 200, <<>>, <<>>, Absent, claims, Absent)
    /\ UNCHANGED <<tokens, now, authCalls, deleted>>

\* AuthController.refreshToken
RefreshToken(claims) ==
    /\ authCalls < MaxAuthCalls
    /\ authCalls' = authCalls + 1
    /\ LET userIndex == findIndex(mockUsers, LAMBDA u : u.id = claims.userId) IN
       IF userIndex = 0
       THEN /\ authRes' = AuthResponse("refreshToken", 404, <<>>, <<>>, Absent, claims, Absent)
            /\ UNCHANGED tokens
       ELSE /\ authRes' = AuthResponse("refreshToken", 200, <<>>,
                                       <<jwtSign(mockUsers[userIndex])>>, Absent, claims, Absent)
            /\ tokens' = tokens \cup {jwtSign(mockUsers[userIndex])}
    /\ UNCHANGED <<mockUsers, pending, now, deleted>>

\* AuthController.getAllUsers
GetAllUsers(claims) ==
    /\ authCalls < MaxAuthCalls
    /\ authCalls' = authCalls + 1
    /\ authRes' =
          IF claims.role # "admin"
          THEN AuthResponse("getAllUsers", 403, <<>>, <<>>, Absent, claims, Absent)
          ELSE AuthResponse("getAllUsers", 200,
                            [i \in 1..Len(mockUsers) |-> WithoutPassword(mockUsers[i])],
                            <<>>, Absent, claims, Absent)
    /\ UNCHANGED <<mockUsers, pending, tokens, now, deleted>>

\* AuthController.deleteUser
DeleteUser(claims, userId) ==
    /\ authCalls < MaxAuthCalls
    /\ authCalls' = authCalls + 1
    /\ LET userIndex == findIndex(mockUsers, LAMBDA u : u.id = userId) IN
       IF claims.role # "admin"
       THEN /\ authRes' = AuthResponse("deleteUser", 403, <<>>, <<>>, Absent, claims, userId)
            /\ UNCHANGED <<mockUsers, deleted>>
       ELSE IF userId = claims.userId
       THEN /\ authRes' = AuthResponse("deleteUser", 400, <<>>, <<>>, Absent, claims, userId)
            /\ UNCHANGED <<mockUsers, deleted>>
       ELSE IF userIndex = 0
       THEN /\ authRes' = AuthResponse("deleteUser", 404, <<>>, <<>>, Absent, claims, userId)
            /\ UNCHANGED <<mockUsers, deleted>>
       ELSE /\ mockUsers' = splice(mockUsers, userIndex)
            /\ deleted' = deleted \cup {[id |-> userId, email |-> mockUsers[userIndex].email]}
            /\ authRes' = AuthResponse("deleteUser", 200, <<>>, <<>>, Absent, claims, userId)
    /\ UNCHANGED <<pending, tokens, now>>

Emails == {"admin@example.com", "new@example.com"}

LoginPasswords == {"password123", "secret"}

RegisterBodies ==
    { [email |-> e, password |-> "secret", firstName |-> "New", lastName |-> "User",
       role |-> r, sector |-> sec] :
        e \in Emails, r \in {Absent, "admin"}, sec \in {Absent, "education"} }

\* the ids a caller may name: those of the users and one of nobody
UserIds == {mockUsers[i].id : i \in 1..Len(mockUsers)} \cup {"user_404"}

\* req.user is the payload of a token that authenticateToken has verified
AuthNext ==
    /\ \/ \E e \in Emails, pw \in LoginPasswords : Login(e, pw)
       \/ \E b \in RegisterBodies : RegisterBegin(b)
       \/ \E p \in pending : RegisterResume(p)
       \/ \E claims \in tokens : GetProfile(claims)
       \/ \E claims \in tokens, sec \in {Absent, "investment"} :
             UpdateProfile(claims, "Zed", Absent, sec)
       \/ \E claims \in tokens, pw \in LoginPasswords :
             ChangePasswordBegin(claims, pw, "changed")
       \/ \E p \in pending : ChangePasswordResume(p)
       \/ \E claims \in tokens : RefreshToken(claims)
       \/ \E claims \in tokens : GetAllUsers(claims)
       \/ \E claims \in tokens, userId \in UserIds : DeleteUser(claims, userId)
    /\ UNCHANGED <<classifierVars, webhookVars, verifyVars, platformVars, apiVars>>

SpecAuth == Init /\ [][AuthNext]_vars

\* ------------------------------------------------------------------------
\* Properties of classification and rendering (specification SpecText)
\* ------------------------------------------------------------------------

\* the pairs of an upper-case letter and its lower-case letter
CasePairs ==
    { <<"A", "a">>, <<"B", "b">>, <<"C", "c">>, <<"D", "d">>, <<"E", "e">>,
      <<"F", "f">>, <<"G", "g">>, <<"H", "h">>, <<"I", "i">>, <<"J", "j">>,
      <<"K", "k">>, <<"L", "l">>, <<"M", "m">>, <<"N", "n">>, <<"O", "o">>,
      <<"P", "p">>, <<"Q", "q">>, <<"R", "r">>, <<"S", "s">>, <<"T", "t">>,
      <<"U", "u">>, <<"V", "v">>, <<"W", "w">>, <<"X", "x">>, <<"Y", "y">>,
      <<"Z", "z">> }

\* a and b are the same letter, in either case
SameLetter(a, b) ==
    a = b \/ <<a, b>> \in CasePairs \/ <<b, a>> \in CasePairs

\* the word k occurs in t, whatever the case of t's letters
OccursIn(t, k) ==
    \E i \in 0..(Len(t) - Len(k)) :
        \A j \in 1..Len(k) : SameLetter(t[i + j], k[j])

\* t contains one of the words of K
HasAny(t, K) == \E k \in K : OccursIn(t, k)

EducationKeywords == {w_catering, w_school, w_lunch, w_menu}

HospitalityKeywords == {w_cafe, w_coffee, w_reservation, w_table}

InvestmentKeywords == {w_investment, w_portfolio, w_meeting, w_financial}

\* determineSector has run on messageText
Classified == step \in {"classified", "rendered"}

\* C1: classification is case-insensitive and follows the priority education,
\* then hospitality, then investment: a text with an education keyword is
\* education; otherwise one with a hospitality keyword is hospitality;
\* otherwise one with an investment keyword is investment.
C1_SectorPriority ==
    Classified =>
        LET t == messageText.val IN
        /\ HasAny(t, EducationKeywords) => sector = Return("education")
        /\ (~HasAny(t, EducationKeywords) /\ HasAny(t, HospitalityKeywords))
              => sector = Return("hospitality")
        /\ (/\ ~HasAny(t, EducationKeywords)
            /\ ~HasAny(t, HospitalityKeywords)
            /\ HasAny(t, InvestmentKeywords))
              => sector = Return("investment")

\* an upper-case text with keywords of two sectors, classified as the
\* earlier one
C1_Witness ==
    /\ step = "classified"
    /\ messageText.val = toUpperCase(messageText.val)
    /\ HasAny(messageText.val, EducationKeywords)
    /\ HasAny(messageText.val, HospitalityKeywords)
    /\ sector = Return("education")

\* C2: a text without any sector keyword, the empty text and a message
\* without text body included, is classified as the fallback sector
\* hospitality.
C2_FallbackHospitality ==
    Classified =>
        /\ (/\ ~HasAny(messageText.val, EducationKeywords)
            /\ ~HasAny(messageText.val, HospitalityKeywords)
            /\ ~HasAny(messageText.val, InvestmentKeywords))
              => sector = Return("hospitality")
        /\ message \in {NoTextMessage(Phone1), NoBodyMessage(Phone1),
                        TextMessage(Phone1, JsString(<<>>))}
              => sector = Return("hospitality")

\* a message without text object has been classified
C2_Witness ==
    /\ step = "classified"
    /\ message = NoTextMessage(Phone1)
    /\ sector = Return("hospitality")

\* C5: whatever the sector argument and the text, the rendered reply is a
\* non-empty string, so the if (response) guard is true whenever reached.
C5_ReplyNonEmpty ==
    step \in {"rendered", "direct"} =>
        /\ response.kind = "return"
        /\ Len(response.value) > 0
        /\ \A i \in 1..Len(response.value) : response.value[i] # ""

\* the generic reply was rendered for a sector argument outside the enum
C5_Witness ==
    /\ step = "direct"
    /\ sector = Return("unknown")
    /\ response.kind = "return"
    /\ response.value # <<>>

\* the ordered keyword groups of a sector's intent selection
IntentGroups(s) ==
    CASE s = "education" ->
            << {w_menu, w_food}, {w_order, w_book}, {w_delivery, w_time} >>
      [] s = "hospitality" ->
            << {w_reservation, w_table, w_book}, {w_menu, w_food, w_coffee},
               {w_hours, w_open, w_time} >>
      [] s = "investment" ->
            << {w_portfolio, w_investment, w_performance},
               {w_meeting, w_consultation, w_appointment},
               {w_market, w_trend, w_news} >>

\* the templates of a sector in a controller: one per group, then the welcome
SectorTemplates(c, s) ==
    IF c = "WebhookController"
    THEN CASE s = "education" ->
                 << Webhook_EducationMenuTemplate, Webhook_EducationOrderTemplate,
                    Webhook_EducationDeliveryTemplate, Webhook_EducationWelcomeTemplate >>
           [] s = "hospitality" ->
                 << Webhook_HospitalityReservationTemplate, Webhook_HospitalityMenuTemplate,
                    Webhook_HospitalityHoursTemplate, Webhook_HospitalityWelcomeTemplate >>
           [] s = "investment" ->
                 << Webhook_InvestmentPortfolioTemplate, Webhook_InvestmentMeetingTemplate,
                    Webhook_InvestmentMarketTemplate, Webhook_InvestmentWelcomeTemplate >>
    ELSE CASE s = "education" ->
                 << WhatsApp_EducationMenuTemplate, WhatsApp_EducationOrderTemplate,
                    WhatsApp_EducationDeliveryTemplate, WhatsApp_EducationWelcomeTemplate >>
           [] s = "hospitality" ->
                 << WhatsApp_HospitalityReservationTemplate, WhatsApp_HospitalityMenuTemplate,
                    WhatsApp_HospitalityHoursTemplate, WhatsApp_HospitalityWelcomeTemplate >>
           [] s = "investment" ->
                 << WhatsApp_InvestmentPortfolioTemplate, WhatsApp_InvestmentMeetingTemplate,
                    WhatsApp_InvestmentMarketTemplate, WhatsApp_InvestmentWelcomeTemplate >>

\* the first group of s with a word in t, or 4 (the welcome) when none has
FirstGroup(s, t) ==
    LET hit == { g \in 1..3 : HasAny(t, IntentGroups(s)[g]) } IN
    IF hit = {} THEN 4 ELSE CHOOSE g \in hit : \A h \in hit : g <= h

\* C6: within a sector, the reply is the template of the first keyword group
\* (in the sector's order) that matches the text, and the sector's welcome
\* template when none matches.
C6_IntentFirstMatch ==
    (step \in {"rendered", "direct"} /\ sector.value \in Sectors) =>
        response =
            Return(SectorTemplates(controller, sector.value)
                       [FirstGroup(sector.value, messageText.val)])

\* a classified hospitality text matching the first and the second group got
\* the reservation template
C6_Witness ==
    /\ step = "rendered"
    /\ sector = Return("hospitality")
    /\ HasAny(messageText.val, IntentGroups("hospitality")[1])
    /\ HasAny(messageText.val, IntentGroups("hospitality")[2])
    /\ response = Return(SectorTemplates(controller, "hospitality")[1])

\* the title of the reservation template
ReservationTitle == "Hawana Cafe Reservation"

\* C18: after classification and rendering, a text that contains table or
\* reservation and no education keyword, 'can I book a table for 4'
\* included, has sector hospitality and the reservation template of its
\* controller as reply, whose title is 'Hawana Cafe Reservation'.
C18_TableIsReservation ==
    step = "rendered" =>
        LET t == messageText.val IN
        ( /\ t = t_book_a_table \/ OccursIn(t, w_table) \/ OccursIn(t, w_reservation)
          /\ ~HasAny(t, EducationKeywords) ) =>
            /\ sector = Return("hospitality")
            /\ response = Return(SectorTemplates(controller, "hospitality")[1])
            /\ \E i \in 1..Len(response.value) : response.value[i] = ReservationTitle

\* the scenario text was classified and rendered on the webhook controller
C18_Witness ==
    /\ step = "rendered"
    /\ controller = "WebhookController"
    /\ messageText = JsString(t_book_a_table)
    /\ sector = Return("hospitality")
    /\ response = Return(Webhook_HospitalityReservationTemplate)

\* the intent keywords of the education sector
EducationIntentKeywords == {w_menu, w_food, w_order, w_book, w_delivery, w_time}

\* C19: after classification and rendering, by either controller, a text
\* with catering, school or lunch and no education intent keyword, 'I need
\* catering for my school' included, has sector education and the education
\* welcome template of its controller as reply.
C19_CateringIsEducationWelcome ==
    step = "rendered" =>
        LET t == messageText.val IN
        ( /\ t = t_catering_for_my_school
             \/ HasAny(t, {w_catering, w_school, w_lunch})
          /\ ~HasAny(t, EducationIntentKeywords) ) =>
            /\ sector = Return("education")
            /\ response = Return(SectorTemplates(controller, "education")[4])

\* the scenario text was classified and rendered on the WhatsApp controller
C19_Witness ==
    /\ step = "rendered"
    /\ controller = "WhatsAppController"
    /\ messageText = JsString(t_catering_for_my_school)
    /\ sector = Return("education")
    /\ response = Return(WhatsApp_EducationWelcomeTemplate)

\* ------------------------------------------------------------------------
\* Properties of the webhook handlers (specification Spec)
\* ------------------------------------------------------------------------

\* the request in flight carries the WhatsApp discriminator
Matched == Get(body, "object") = JsString(w_whatsapp_business_account)

\* the request in flight carries a message array
HasMessageArray == messagesOf(body).type = "array"

\* C3: for every message object taken from a payload, whatever is found at
\* text.body, determineSector returns one of the three sectors and
\* generateAutomatedResponse returns.
C3_PipelineTotal ==
    \A i \in 1..Len(outcomes) :
        messagesOf(body).items[i].type = "object" =>
            /\ outcomes[i].sector.kind = "return"
            /\ outcomes[i].sector.value \in Sectors
            /\ outcomes[i].response.kind = "return"

\* C4 as stated: the sector and the reply of a message are a function of its
\* text alone.
C4_ReplyFunctionOfText ==
    \A a, b \in history :
        a.text = b.text => (a.sector = b.sector /\ a.response = b.response)

\* C4: on each webhook route the sector and the reply of a message are a
\* function of its text alone, whoever sent it and whatever was handled
\* before it or with it; across the two routes the sector is the same.
C4_ReplyFunctionOfTextPerRoute ==
    \A a, b \in history :
        a.text = b.text =>
            /\ a.sector = b.sector
            /\ a.route = b.route => a.response = b.response

\* the same text from two senders was answered on one route, in a run of
\* two requests
C4_Witness ==
    /\ requests = 2
    /\ \E a, b \in history :
          /\ a.phoneNumber # b.phoneNumber
          /\ a.route = b.route
          /\ a.text = b.text
          /\ a.response = b.response

\* no classification, rendering, send or record call was made for the
\* request in flight
NoDownstreamCalls ==
    /\ classifyCalls = 0
    /\ renderCalls = 0
    /\ sendCalls = <<>>
    /\ storeCalls = <<>>

\* C7: a POST whose body.object is not whatsapp_business_account is answered
\* 404 and causes no classification, rendering, send or record call.
C7_MismatchIs404 ==
    (pc # "idle" /\ ~Matched) =>
        /\ pc = "responded"
        /\ res = <<NotFound404>>
        /\ NoDownstreamCalls

\* a page payload that carries messages was answered 404
C7_Witness ==
    /\ pc = "responded"
    /\ Get(body, "object") = JsString(w_page)
    /\ HasMessageArray
    /\ Len(messagesOf(body).items) >= 1
    /\ res = <<NotFound404>>

\* the WhatsApp bodies whose message list is empty or absent
EmptyBodies ==
    { JsObject(WithObject(e, JsString(w_whatsapp_business_account))) :
        e \in PartialEnvelopes \cup
              { Envelope(v) : v \in { JsNull, JsObject(<<>>),
                                      JsObject([messages |-> JsNull]),
                                      JsObject([messages |-> JsArray(<<>>)]) } } }

\* C8: a WhatsApp payload whose message list is empty or absent (entry,
\* changes or value absent included) is answered 200 OK and causes no
\* classification, rendering, send or record call.
C8_EmptyIs200 ==
    (pc # "idle" /\ body \in EmptyBodies) =>
        /\ pc = "responded"
        /\ res = <<OK200>>
        /\ NoDownstreamCalls

\* a WhatsApp payload without entry was answered 200 OK
C8_Witness ==
    /\ pc = "responded"
    /\ body = JsObject([object |-> JsString(w_whatsapp_business_account)])
    /\ res = <<OK200>>

\* C9: a payload with N messages causes exactly N classifications, exactly N
\* renderings and at most N sends.
C9_CallCounts ==
    (pc = "responded" /\ Matched /\ HasMessageArray) =>
        LET N == Len(messagesOf(body).items) IN
        /\ classifyCalls = N
        /\ renderCalls = N
        /\ Len(sendCalls) <= N

\* the sends the messages handled so far call for: one per message with a
\* non-empty reply, to its sender, with its reply and its sector
ExpectedSends ==
    LET replied == SelectSeq(outcomes,
                     LAMBDA o : o.response.kind = "return" /\ o.response.value # <<>>)
    IN  [i \in 1..Len(replied) |->
            [to |-> replied[i].phoneNumber, body |-> replied[i].response.value,
             sector |-> replied[i].sector.value]]

\* C10: on both webhook routes, the sends of a request are exactly one per
\* message with a non-empty reply, with (sender, reply, sector) of it.
C10_SendArguments ==
    (pc = "responded" /\ Matched /\ HasMessageArray) => sendCalls = ExpectedSends

\* the inbound records among the writes of the request in flight
InboundWrites == SelectSeq(storeCalls, LAMBDA r : r.direction = "inbound")

\* the inbound records the messages handled so far call for: one per message
\* that was classified and rendered, tagged with its sector
ExpectedInboundWrites ==
    LET rendered == SelectSeq(outcomes, LAMBDA o : ~o.threw)
    IN  [i \in 1..Len(rendered) |-> InboundRecord(rendered[i])]

\* C11: when the handler responds, an inbound record tagged with the resolved
\* sector has been written for every message that was classified and
\* rendered, whether its send succeeded, failed or was not made.
C11_InboundWriteAttempted ==
    pc = "responded" => InboundWrites = ExpectedInboundWrites

\* C12: once the write of an inbound record has failed, no error response is
\* sent, the sends of the request stay one per message with a reply (none is
\* withdrawn or made again), and the handler responds 200 OK only after every
\* message of the payload has been handled.
C12_StoreFailureSwallowed ==
    "inbound" \in storeFailed =>
        /\ res \in {<<>>, <<OK200>>}
        /\ sendCalls = (IF ControllerOf(route) = "WhatsAppController"
                        THEN ExpectedSends ELSE <<>>)
        /\ pc = "responded" =>
              /\ res = <<OK200>>
              /\ Len(outcomes) = Len(messagesOf(body).items)
        /\ pc # "responded" => res = <<>>

\* the reply to the first message was sent, the write of its inbound record
\* failed, and the loop has moved on to the second message
C12_Witness ==
    /\ pc = "loop"
    /\ idx = 2
    /\ "inbound" \in storeFailed
    /\ Len(sendCalls) = 1
    /\ sendResults = <<TRUE>>
    /\ res = <<>>

\* the number of sends made for the first i messages of the request
SendsUpTo(i) ==
    Len(SelectSeq(SubSeq(outcomes, 1, i),
                  LAMBDA o : ~o.threw /\ ControllerOf(route) = "WhatsAppController"))

\* processing of message i raised: in classification or rendering, or in the
\* outbound send
RaisedAt(i) ==
    \/ outcomes[i].threw
    \/ /\ SendsUpTo(i) > SendsUpTo(i - 1)
       /\ SendsUpTo(i) <= Len(sendResults)
       /\ ~sendResults[SendsUpTo(i)]

\* message j is an object whose text.body is a string or is absent
WellFormed(m) ==
    /\ m.type = "object"
    /\ extractMessageText(m).type = "string"

\* a send was made for message j, with its sender, reply and sector
SentFor(j) ==
    \E n \in 1..Len(sendCalls) :
        sendCalls[n] = [to |-> outcomes[j].phoneNumber,
                        body |-> outcomes[j].response.value,
                        sector |-> outcomes[j].sector.value]

\* C13: when processing of message i of a payload raised, the handler still
\* answers 200 OK and every later well-formed message of the payload has been
\* classified, rendered and sent.
C13_FailureIsolation ==
    (pc = "responded" /\ Matched /\ HasMessageArray) =>
        \A i \in 1..Len(outcomes) :
            RaisedAt(i) =>
                /\ res = <<OK200>>
                /\ \A j \in (i + 1)..Len(messagesOf(body).items) :
                      WellFormed(messagesOf(body).items[j]) =>
                          /\ j <= Len(outcomes)
                          /\ outcomes[j].sector.kind = "return"
                          /\ outcomes[j].response.kind = "return"
                          /\ SentFor(j)

\* C14: the messages of a payload are handled one at a time in array order,
\* message idx beginning only when every earlier message has finished and its
\* send has settled, and the sends of the request are at most one per
\* message, in the order of the messages.
C14_OneReplyInOrder ==
    (pc # "idle" /\ Matched /\ HasMessageArray) =>
        LET items == messagesOf(body).items IN
        /\ Len(outcomes) <= Len(items)
        /\ \A i \in 1..Len(outcomes) :
              outcomes[i] = Pipeline(ControllerOf(route), items[i])
        /\ Len(sendCalls) = SendsUpTo(Len(outcomes))
        /\ \A i \in 1..Len(outcomes) :
              SendsUpTo(i) > SendsUpTo(i - 1) =>
                  /\ SendsUpTo(i) = SendsUpTo(i - 1) + 1
                  /\ sendCalls[SendsUpTo(i)].to = outcomes[i].phoneNumber
                  /\ sendCalls[SendsUpTo(i)].body = outcomes[i].response.value
        /\ pc = "loop" =>
              Len(outcomes) = idx - 1 /\ Len(sendResults) = Len(sendCalls)
        /\ pc = "sending" =>
              Len(outcomes) = idx /\ Len(sendResults) = Len(sendCalls) - 1
        /\ pc = "responded" =>
              Len(outcomes) = Len(items) /\ Len(sendResults) = Len(sendCalls)

\* two messages from two senders were answered one after the other, the
\* first send having failed
C14_Witness ==
    /\ pc = "responded"
    /\ Matched
    /\ HasMessageArray
    /\ Len(messagesOf(body).items) = 2
    /\ Len(sendCalls) = 2
    /\ sendCalls[1].to = Phone1
    /\ sendCalls[2].to = Phone2
    /\ sendResults = <<FALSE, TRUE>>

\* the request in flight matches the discriminator and carries a message
\* list that passes if (value?.messages) and cannot be iterated
NotIterableMessages ==
    /\ pc # "idle"
    /\ Matched
    /\ Truthy(messagesOf(body))
    /\ ~Iterable(messagesOf(body))

\* C17: a webhook POST handler sends nothing on res while it is iterating the
\* messages and exactly one response by the time it returns, never a second
\* one; a message list that cannot be iterated is answered 500 with no
\* message handled.
C17_ExactlyOneResponse ==
    /\ Len(res) <= 1
    /\ pc \in {"idle", "loop", "sending"} => res = <<>>
    /\ pc = "responded" => Len(res) = 1 /\ res[1] \in {OK200, NotFound404, Error500}
    /\ pc = "loop" => idx \in 1..Len(messagesOf(body).items)
    /\ pc = "sending" => Len(sendCalls) = Len(sendResults) + 1
    /\ NotIterableMessages =>
          /\ pc = "responded"
          /\ res = <<Error500>>
          /\ NoDownstreamCalls

\* a WhatsApp payload whose messages field is not an array was answered 500
C17_Witness ==
    /\ NotIterableMessages
    /\ pc = "responded"
    /\ res = <<Error500>>

\* the writes the messages handled so far call for: on the sending route two
\* per send that went through, on the other route one per rendered message
ExpectedWriteCount ==
    IF ControllerOf(route) = "WhatsAppController"
    THEN 2 * Len(SelectSeq(sendResults, LAMBDA ok : ok))
    ELSE Len(SelectSeq(outcomes, LAMBDA o : ~o.threw))

\* C23: nothing is sent on res while a message is waiting for its outbound
\* send, and when 200 OK is sent every message of the payload has been
\* handled, every send has settled and every record write has been made.
C23_AckAfterProcessing ==
    /\ pc = "sending" => res = <<>>
    /\ (res # <<>> /\ Matched /\ HasMessageArray) =>
          /\ res = <<OK200>>
          /\ Len(outcomes) = Len(messagesOf(body).items)
          /\ Len(sendResults) = Len(sendCalls)
          /\ Len(storeCalls) = ExpectedWriteCount

\* the only message of a payload was answered, its send failed, and the
\* acknowledgement followed
C23_Witness ==
    /\ pc = "responded"
    /\ Matched
    /\ HasMessageArray
    /\ Len(messagesOf(body).items) = 1
    /\ Len(sendCalls) = 1
    /\ sendResults = <<FALSE>>
    /\ res = <<OK200>>

\* ------------------------------------------------------------------------
\* Claims on webhook verification (SpecVerify)
\* ------------------------------------------------------------------------

\* the request names the subscribe mode and carries the configured secret
Passes(q) == q.mode = JsString(w_subscribe) /\ q.token = env

\* C15: with a secret configured, a verification request is answered 200
\* with its hub.challenge as body when hub.mode is subscribe and
\* hub.verify_token is the secret, and 403 Forbidden otherwise.
C15_VerifyIffModeAndToken ==
    env.type = "string" =>
        \A e \in verifyLog :
            IF e.query.mode.type = "string" /\ e.query.mode.val = w_subscribe
               /\ e.query.token.type = "string" /\ e.query.token.val = env.val
            THEN /\ e.response.status = 200
                 /\ e.response.body = (IF e.query.challenge.type = "string"
                                        THEN e.query.challenge.val ELSE <<>>)
            ELSE /\ e.response.status = 403
                 /\ e.response.body = w_Forbidden

\* with the secret configured, one request was verified and got its
\* challenge back, and one with a wrong token was refused
C15_Witness ==
    /\ env = JsString(w_test_token)
    /\ \E a, b \in verifyLog :
          /\ a.query.token = env
          /\ a.query.challenge.type = "string"
          /\ a.response = [status |-> 200, body |-> a.query.challenge.val]
          /\ b.query.mode = a.query.mode
          /\ b.query.token.type = "string"
          /\ b.query.token # env
          /\ b.response.status = 403

\* C16: a verification request with a wrong mode or a mismatched token is
\* not answered 200, and two such requests on one route that differ only in
\* hub.challenge get the same response.
C16_FailureIgnoresChallenge ==
    \A a, b \in verifyLog :
        ~Passes(a.query) =>
            /\ a.response.status # 200
            /\ ( /\ a.route = b.route
                 /\ a.query.mode = b.query.mode
                 /\ a.query.token = b.query.token ) => a.response = b.response

\* two refused requests on one route differed in hub.challenge only
C16_Witness ==
    \E a, b \in verifyLog :
        /\ ~Passes(a.query)
        /\ a.route = b.route
        /\ a.query.mode = b.query.mode
        /\ a.query.token = b.query.token
        /\ a.query.challenge # b.query.challenge
        /\ a.query.challenge.type = "string"
        /\ b.query.challenge.type = "string"
        /\ a.response = b.response
        /\ a.response.status = 403

\* C25: a verification request without hub.verify_token is answered 403,
\* whether the secret is set or not.
C25_MissingTokenRejected ==
    \A e \in verifyLog :
        e.query.token = JsUndefined => e.response.status = 403

\* ------------------------------------------------------------------------
\* Claims on signed webhooks (SpecSigned)
\* ------------------------------------------------------------------------

\* C20: a webhook POST whose signature is not valid is answered 401 or 403
\* at once, and no message of it is classified, rendered, sent or recorded
\* and no change of it is dispatched.
C20_InvalidSignatureRejected ==
    (pc # "idle" /\ signature # "valid") =>
        /\ pc = "responded"
        /\ Len(res) = 1
        /\ res[1].status \in {401, 403}
        /\ NoDownstreamCalls
        /\ dispatched = <<>>

\* C26: a message that is exactly one of the options the welcome template of
\* a sector advertises is classified into that sector and answered with one
\* of that sector's templates.
C26_OptionStaysInSector ==
    \A s \in Sectors :
        (step = "rendered" /\ messageText.val \in AdvertisedOptions(controller, s))
            => sector.value = s

\* the generic reply of a controller
DefaultTemplate(c) ==
    IF c = "WebhookController" THEN Webhook_DefaultTemplate
    ELSE WhatsApp_DefaultTemplate

\* for each sector a text for each of its three intent templates and one for
\* its welcome
ProducingTexts(s) ==
    CASE s = "education" ->
            << w_menu, w_catering \o <<" ">> \o w_order,
               w_school \o <<" ">> \o w_delivery, w_catering >>
      [] s = "hospitality" ->
            << w_reservation, w_coffee, w_hours, w_hi >>
      [] s = "investment" ->
            << w_portfolio, w_meeting,
               w_financial \o <<" ">> \o w_market, w_financial >>

\* C27: each of the twelve sector templates of a controller is the reply of
\* classify-then-render for some input text (the one ProducingTexts names,
\* which is among the inputs), and the generic reply is the reply for none.
C27_TwelveProducedNeverDefault ==
    /\ \A s \in Sectors, g \in 1..4 :
          /\ ProducingTexts(s)[g] \in Texts
          /\ (step = "rendered" /\ messageText.val = ProducingTexts(s)[g])
                => response = Return(SectorTemplates(controller, s)[g])
    /\ step = "rendered" => response # Return(DefaultTemplate(controller))

\* a text classified investment without a word of the first two groups got
\* the market template
C27_Witness ==
    /\ step = "rendered"
    /\ sector = Return("investment")
    /\ response = Return(SectorTemplates(controller, "investment")[3])

\* ------------------------------------------------------------------------
\* Claims on the platform webhooks (SpecPlatform)
\* ------------------------------------------------------------------------

\* a platform handler has answered the request in flight
PlatformResponded ==
    /\ pc = "responded"
    /\ \E p \in Platforms : route = PlatformRoute(p)

\* the platform whose route the request in flight came in on
PlatformOf(r) == CHOOSE p \in Platforms : PlatformRoute(p) = r

\* body.object is the discriminator of the route's platform
PlatformMatched == Get(body, "object") = JsString(Discriminator(PlatformOf(route)))

\* the changes of an entry, none when it has no changes array
ChangesOf(entry) ==
    LET cs == OptGet(entry, "changes") IN
    IF cs.type = "array" THEN cs.items ELSE <<>>

RECURSIVE AllChanges(_)
\* the changes of the entries, in payload order
AllChanges(entries) ==
    IF entries = <<>> THEN <<>>
    ELSE ChangesOf(entries[1]) \o AllChanges(Tail(entries))

\* the entries of the request in flight, none when body.entry is no array
EntriesOf(b) ==
    IF Get(b, "entry").type = "array" THEN Get(b, "entry").items ELSE <<>>

\* body.entry is an array of objects that each carry a changes array
WellFormedEntries(b) ==
    /\ Get(b, "entry").type = "array"
    /\ \A i \in 1..Len(Get(b, "entry").items) :
          /\ Get(b, "entry").items[i].type = "object"
          /\ Get(Get(b, "entry").items[i], "changes").type = "array"

\* what the dispatch of a change has to do: nothing for a field without
\* case label, nothing more after a change that cannot be destructured
ExpectedDid(p, change) ==
    IF change.type # "object" THEN "threw"
    ELSE IF \E f \in HandledFields(p) : Get(change, "field") = JsString(f)
    THEN "handled"
    ELSE "unhandled"

\* every change of every entry was dispatched once, in payload order
DispatchedAll ==
    LET all == AllChanges(EntriesOf(body)) IN
    /\ Len(dispatched) = Len(all)
    /\ \A k \in 1..Len(all) :
          /\ dispatched[k].change = all[k]
          /\ dispatched[k].did = ExpectedDid(PlatformOf(route), all[k])

CarriesValidToken ==
    \E scheme \in {<<"B", "e", "a", "r", "e", "r">>, <<"B", "a", "s", "i", "c">>} :
        apiReq.authorization = JsString(scheme \o <<" ">> \o ValidJwt)

\* the response of the request in flight has the given status
ApiAnswered(statusCode) ==
    /\ apiPc = "responded"
    /\ Len(apiRes) = 1
    /\ apiRes[1].status = statusCode

\* C21: on POST /api/whatsapp/send-message a request without a valid token
\* is answered 401, and one with a valid token and an invalid phoneNumber
\* 400; in both cases no controller method was entered and nothing was
\* posted; validation is reached only with a valid token and the controller
\* only with a valid phoneNumber.
C21_AuthThenValidation ==
    apiReq.route = "/api/whatsapp/send-message" =>
        /\ apiPc \in {"validate", "controller", "posting"} => CarriesValidToken
        /\ apiPc \in {"controller", "posting"} =>
              Get(apiReq.body, "phoneNumber") \notin InvalidPhones
        /\ (apiPc = "responded" /\ ~CarriesValidToken) =>
              ApiAnswered(401) /\ apiCalls = <<>> /\ apiPosted = <<>>
        /\ (apiPc = "responded" /\ CarriesValidToken
               /\ Get(apiReq.body, "phoneNumber") \in InvalidPhones) =>
              ApiAnswered(400) /\ apiCalls = <<>> /\ apiPosted = <<>>

\* a request with a valid token and the phoneNumber 'invalid' was answered 400
C21_Witness ==
    /\ apiReq.route = "/api/whatsapp/send-message"
    /\ CarriesValidToken
    /\ Get(apiReq.body, "phoneNumber") = JsString(<<"i", "n", "v", "a", "l", "i", "d">>)
    /\ ApiAnswered(400)
    /\ apiCalls = <<>>

\* C22: an authenticated POST /api/whatsapp/send-template that names a
\* template which declares parameters and carries no parameters object is
\* answered 400 and no template message is posted.
C22_MissingParametersRejected ==
    (/\ apiPc = "responded"
     /\ apiReq.route = "/api/whatsapp/send-template"
     /\ CarriesValidToken
     /\ getTemplateByName(Get(apiReq.body, "templateName"),
                          Get(apiReq.body, "sector")).parameters # <<>>
     /\ "parameters" \notin DOMAIN apiReq.body.fields)
        => ApiAnswered(400) /\ apiPosted = <<>>

\* ------------------------------------------------------------------------
\* Claims on the auth controller (SpecAuth)
\* ------------------------------------------------------------------------

\* a step in which a call of the given name was answered
Answered(op) == authRes' # authRes /\ authRes'.op = op

\* no two entries of mockUsers have the same email
EmailsUnique ==
    \A i, j \in 1..Len(mockUsers) :
        mockUsers[i].email = mockUsers[j].email => i = j

\* a register call for an email that an entry has is answered 409 and
\* leaves mockUsers as it is
RegisterConflict ==
    (Answered("register") /\ authCalls' = authCalls + 1
        /\ \E i \in 1..Len(mockUsers) : mockUsers[i].email = authRes'.req.email)
            => authRes'.status = 409 /\ mockUsers' = mockUsers

\* C28: after any interleaving of register, updateProfile, changePassword
\* and deleteUser calls, two overlapping register calls for one email
\* included, no two entries of mockUsers share an email; a register call for
\* an email that an entry has is answered 409 and leaves the list unchanged.
C28_EmailsStayUnique == []EmailsUnique /\ [][RegisterConflict]_vars

\* deleteUser answers 403 to a caller who is no admin, 400 to one who names
\* themselves, 404 for an id no entry has, and leaves mockUsers unchanged in
\* the three cases; otherwise it removes one entry with the id and no other
DeleteEffect ==
    Answered("deleteUser") =>
        LET r == authRes'.req
            there == {i \in 1..Len(mockUsers) : mockUsers[i].id = r.target}
        IN  IF r.role # "admin"
            THEN authRes'.status = 403 /\ mockUsers' = mockUsers
            ELSE IF r.target = r.userId
            THEN authRes'.status = 400 /\ mockUsers' = mockUsers
            ELSE IF there = {}
            THEN authRes'.status = 404 /\ mockUsers' = mockUsers
            ELSE /\ authRes'.status = 200
                 /\ \E i \in there : mockUsers' = splice(mockUsers, i)

\* a login with the email of a deleted user, or a getProfile or refreshToken
\* with a token of a deleted user, is answered 401 or 404
DeletedLockedOut ==
    /\ (authRes.op = "login" /\ \E d \in deleted : d.email = authRes.req.email)
          => authRes.status \in {401, 404}
    /\ (authRes.op \in {"getProfile", "refreshToken"}
           /\ \E d \in deleted : d.id = authRes.req.userId)
          => authRes.status \in {401, 404}

\* C29: deleteUser removes a user only for an admin who names another user
\* that exists (else 403, 400, 404 and the list unchanged); then exactly that
\* user is gone, and every later login, getProfile or refreshToken for the
\* deleted user fails with 401 or 404.
C29_DeletedUserLockedOut == [][DeleteEffect]_vars /\ []DeletedLockedOut

\* the password hashes in mockUsers
StoredHashes == {mockUsers[i].password : i \in 1..Len(mockUsers)}

\* C30: no response of login, register, getProfile, updateProfile,
\* changePassword, refreshToken or getAllUsers has a password key or a value
\* that is a stored password hash, in its users or in its token.
C30_NoHashInResponse ==
    /\ \A i \in 1..Len(authRes.user) :
          /\ "password" \notin DOMAIN authRes.user[i]
          /\ \A k \in DOMAIN authRes.user[i] : authRes.user[i][k] \notin StoredHashes
    /\ \A i \in 1..Len(authRes.token) :
          \A k \in DOMAIN authRes.token[i] : authRes.token[i][k] \notin StoredHashes

\* getAllUsers answered an admin with the mock users and a registered user,
\* whose stored hash is a real one
C30_Witness ==
    /\ authRes.op = "getAllUsers"
    /\ authRes.status = 200
    /\ Len(authRes.user) = 4
    /\ \E h \in StoredHashes : h # MockHash

====
